---- MODULE Spec2Model ----
(***************************************************************************)
(* Room-booking backend: the deterministic booking validator               *)
(* (csis-backend/conflictChecker.js) and the request handlers that write   *)
(* the bookings table (csis-backend/server.js).                            *)
(*                                                                         *)
(* Strings that the code parses (times, dates) are sequences of one-       *)
(* character strings, so that split(':'), Number() and the lexicographic   *)
(* date comparison are computed, not assumed.  Room numbers, statuses,     *)
(* roles and booking ids are only compared for equality by the modelled    *)
(* code and are TLA+ strings; "" is the empty / missing value.             *)
(***************************************************************************)
EXTENDS Integers, Sequences, FiniteSets, TLC

----------------------------------------------------------------------------
(* JavaScript values of the time fields of a proposal                      *)

Digits == {"0", "1", "2", "3", "4", "5", "6", "7", "8", "9"}

\* UTF-16 code units of the characters the modelled strings are made of
Code(c) ==
  CASE c = "-" -> 45
    [] c = "0" -> 48 [] c = "1" -> 49 [] c = "2" -> 50 [] c = "3" -> 51
    [] c = "4" -> 52 [] c = "5" -> 53 [] c = "6" -> 54 [] c = "7" -> 55
    [] c = "8" -> 56 [] c = "9" -> 57
    [] c = ":" -> 58
    [] c = "a" -> 97 [] c = "b" -> 98 [] c = "c" -> 99

DigitVal(c) == Code(c) - Code("0")

\* a string value, a number value (a non-string), and undefined
JsStr(s) == [t |-> "str", s |-> s, n |-> 0]
JsNumber(n) == [t |-> "num", s |-> <<>>, n |-> n]
JsUndefined == [t |-> "undef", s |-> <<>>, n |-> 0]

\* JavaScript truthiness: "", 0 and undefined are falsy
Truthy(v) ==
  CASE v.t = "str" -> v.s # <<>>
    [] v.t = "num" -> v.n # 0
    [] OTHER -> FALSE

\* numeric results: a number, NaN, null, or a thrown TypeError
Num(v) == [k |-> "num", v |-> v]
NaN == [k |-> "nan", v |-> 0]
Null == [k |-> "null", v |-> 0]
Throw == [k |-> "throw", v |-> 0]

\* String.prototype.split(':') : the pieces between the colons
RECURSIVE SplitColon(_)
SplitColon(s) ==
  IF \A i \in 1..Len(s) : s[i] # ":"
  THEN <<s>>
  ELSE LET i == CHOOSE j \in 1..Len(s) :
                  s[j] = ":" /\ \A k \in 1..(j - 1) : s[k] # ":"
       IN <<SubSeq(s, 1, i - 1)>> \o SplitColon(SubSeq(s, i + 1, Len(s)))

RECURSIVE DecimalValue(_)
DecimalValue(s) ==
  IF s = <<>> THEN 0
  ELSE 10 * DecimalValue(SubSeq(s, 1, Len(s) - 1)) + DigitVal(s[Len(s)])

AllDigits(s) == \A i \in 1..Len(s) : s[i] \in Digits

\* Number(string) over the modelled alphabet: "" is 0, an optionally signed
\* run of digits is its decimal value, anything else is NaN
Number(s) ==
  IF s = <<>> THEN Num(0)
  ELSE IF AllDigits(s) THEN Num(DecimalValue(s))
  ELSE IF s[1] = "-" /\ Len(s) > 1 /\ AllDigits(Tail(s))
       THEN Num(0 - DecimalValue(Tail(s)))
  ELSE NaN

\* h * 60 + m of two Number() results; a missing second piece is undefined,
\* and undefined or NaN in the sum gives NaN
TimesPlus(h, m) ==
  IF h.k = "num" /\ m.k = "num" THEN Num(h.v * 60 + m.v) ELSE NaN

toMinutes(timeStr) ==
  IF ~Truthy(timeStr) THEN Null
  ELSE IF timeStr.t # "str" THEN Throw
  ELSE LET parts == SplitColon(timeStr.s)
           h == Number(parts[1])
           m == IF Len(parts) >= 2 THEN Number(parts[2]) ELSE NaN
       IN TimesPlus(h, m)

\* relational operators of JavaScript on toMinutes results: null converts
\* to 0 and every comparison with NaN is false
ToNum(a) == IF a.k = "null" THEN 0 ELSE a.v
JsLt(a, b) == a.k # "nan" /\ b.k # "nan" /\ ToNum(a) < ToNum(b)
JsGt(a, b) == JsLt(b, a)
JsGe(a, b) == a.k # "nan" /\ b.k # "nan" /\ ToNum(a) >= ToNum(b)
JsMinus(a, b) ==
  IF a.k = "nan" \/ b.k = "nan" THEN NaN ELSE Num(ToNum(a) - ToNum(b))

\* a variant of timesOverlap that only asks whether the first range starts
\* inside the second one
timesOverlapStartInside(startA, endA, startB, endB) ==
  LET s1 == toMinutes(startA)
      e1 == toMinutes(endA)
      s2 == toMinutes(startB)
      e2 == toMinutes(endB)
  IN IF s1.k = "null" \/ e1.k = "null" \/ s2.k = "null" \/ e2.k = "null"
     THEN FALSE
     ELSE JsLt(s1, e2) /\ JsGe(s1, s2)

\* a variant of timesOverlap whose comparisons are not strict
timesOverlapClosed(startA, endA, startB, endB) ==
  LET s1 == toMinutes(startA)
      e1 == toMinutes(endA)
      s2 == toMinutes(startB)
      e2 == toMinutes(endB)
  IN IF s1.k = "null" \/ e1.k = "null" \/ s2.k = "null" \/ e2.k = "null"
     THEN FALSE
     ELSE JsGe(e2, s1) /\ JsGe(e1, s2)

timesOverlap(startA, endA, startB, endB) ==
  LET s1 == toMinutes(startA)
      e1 == toMinutes(endA)
      s2 == toMinutes(startB)
      e2 == toMinutes(endB)
  IN IF s1.k = "null" \/ e1.k = "null" \/ s2.k = "null" \/ e2.k = "null"
     THEN FALSE
     ELSE JsLt(s1, e2) /\ JsLt(s2, e1)

\* whether a call of timesOverlap throws (a truthy non-string bound)
timesOverlapThrows(startA, endA, startB, endB) ==
  \E v \in {startA, endA, startB, endB} : toMinutes(v).k = "throw"

\* string < string : code-unit lexicographic order
RECURSIVE LexLess(_, _)
LexLess(a, b) ==
  IF b = <<>> THEN FALSE
  ELSE IF a = <<>> THEN TRUE
  ELSE IF Code(a[1]) # Code(b[1]) THEN Code(a[1]) < Code(b[1])
  ELSE LexLess(Tail(a), Tail(b))

----------------------------------------------------------------------------
(* The validator: checkBookingConflict                                     *)

Chars(a, b, c, d, e) == <<a, b, c, d, e>>

\* "YYYY-MM-DD" of the current day (new Date().toISOString().split('T')[0]);
\* the clock does not advance within the explored runs
Today == <<"2", "0", "2", "6", "-", "0", "3", "-", "0", "5">>

OPEN == toMinutes(JsStr(Chars("0", "7", ":", "0", "0")))
CLOSE == toMinutes(JsStr(Chars("2", "2", ":", "0", "0")))
MaxDurationMins == 240

Reason(kind, ref) == [kind |-> kind, ref |-> ref]

Result(valid, conflicts, reasons, queried) ==
  [threw |-> FALSE, valid |-> valid, conflicts |-> conflicts,
   reasons |-> reasons, queried |-> queried]

\* a TypeError raised inside the validator propagates to the caller
Thrown(queried) ==
  [threw |-> TRUE, valid |-> FALSE, conflicts |-> <<>>,
   reasons |-> <<>>, queried |-> queried]

Invalid(kind) == Result(FALSE, <<>>, <<Reason(kind, "")>>, FALSE)

\* a variant of the query without the .neq('status', 'Rejected') filter
QueryExistingAll(store, room_number, start_date) ==
  SelectSeq(store, LAMBDA bk : /\ bk.room_number = room_number
                               /\ bk.start_date = start_date)

\* .from('bookings').select(..).eq('room_number', ..).eq('start_date', ..)
\*   .neq('status', 'Rejected')
QueryExisting(store, room_number, start_date) ==
  SelectSeq(store, LAMBDA bk : /\ bk.room_number = room_number
                               /\ bk.start_date = start_date
                               /\ bk.status # "Rejected")

Conflict(bk) ==
  [booking_id |-> bk.booking_id, room_number |-> bk.room_number,
   date |-> bk.start_date, start_time |-> bk.start_time,
   end_time |-> bk.end_time, status |-> bk.status, held_by |-> bk.owner_role]

RECURSIVE MapConflict(_)
MapConflict(rows) ==
  IF rows = <<>> THEN <<>>
  ELSE <<Conflict(Head(rows))>> \o MapConflict(Tail(rows))

RECURSIVE MapReason(_)
MapReason(rows) ==
  IF rows = <<>> THEN <<>>
  ELSE <<Reason("conflict", Head(rows).booking_id)>> \o MapReason(Tail(rows))

\* a variant of the loop that stops at the first overlapping row
OverlapLoopFirstOnly(existing, proposed) ==
  LET hits == SelectSeq(existing, LAMBDA bk :
                  timesOverlap(proposed.start_time, proposed.end_time,
                               bk.start_time, bk.end_time))
      first == IF hits = <<>> THEN <<>> ELSE <<Head(hits)>>
  IN IF \E i \in 1..Len(existing) :
          timesOverlapThrows(proposed.start_time, proposed.end_time,
                             existing[i].start_time, existing[i].end_time)
     THEN Thrown(TRUE)
     ELSE Result(hits = <<>>, MapConflict(first), MapReason(first), TRUE)

\* the loop over the fetched rows: every overlapping row is a conflict
OverlapLoop(existing, proposed) ==
  LET hits == SelectSeq(existing, LAMBDA bk :
                  timesOverlap(proposed.start_time, proposed.end_time,
                               bk.start_time, bk.end_time))
  IN IF \E i \in 1..Len(existing) :
          timesOverlapThrows(proposed.start_time, proposed.end_time,
                             existing[i].start_time, existing[i].end_time)
     THEN Thrown(TRUE)
     ELSE Result(hits = <<>>, MapConflict(hits), MapReason(hits), TRUE)

\* 1. the hardcoded rules, in the order of the code; the first that fails
\* returns.  Passed: no rule failed and the store is queried next.
Passed == Result(TRUE, <<>>, <<>>, FALSE)

\* a variant of the rules that tests the operating hours before the date
StaticCheckHoursFirst(proposed) ==
  LET s == toMinutes(proposed.start_time)
      e == toMinutes(proposed.end_time)
      durationMins == JsMinus(e, s)
  IN IF \/ proposed.room_number = ""
        \/ proposed.start_date = <<>>
        \/ ~Truthy(proposed.start_time)
        \/ ~Truthy(proposed.end_time)
     THEN Invalid("missing")
     ELSE IF s.k = "throw" \/ e.k = "throw" THEN Thrown(FALSE)
     ELSE IF JsGe(s, e) THEN Invalid("range")
     ELSE IF JsLt(s, OPEN) \/ JsGt(e, CLOSE) THEN Invalid("hours")
     ELSE IF LexLess(proposed.start_date, Today) THEN Invalid("past")
     ELSE IF JsGt(durationMins, Num(MaxDurationMins)) THEN Invalid("duration")
     ELSE Passed

StaticCheck(proposed) ==
  LET s == toMinutes(proposed.start_time)
      e == toMinutes(proposed.end_time)
      durationMins == JsMinus(e, s)
  IN IF \/ proposed.room_number = ""
        \/ proposed.start_date = <<>>
        \/ ~Truthy(proposed.start_time)
        \/ ~Truthy(proposed.end_time)
     THEN Invalid("missing")
     ELSE IF s.k = "throw" \/ e.k = "throw" THEN Thrown(FALSE)
     ELSE IF JsGe(s, e) THEN Invalid("range")
     ELSE IF LexLess(proposed.start_date, Today) THEN Invalid("past")
     ELSE IF JsLt(s, OPEN) \/ JsGt(e, CLOSE) THEN Invalid("hours")
     ELSE IF JsGt(durationMins, Num(MaxDurationMins)) THEN Invalid("duration")
     ELSE Passed

\* a variant that treats a query error as an empty result (fails open)
LiveCheckFailOpen(store, proposed, dbError) ==
  IF dbError
  THEN Result(TRUE, <<>>, <<>>, TRUE)
  ELSE OverlapLoop(QueryExisting(store, proposed.room_number,
                                 proposed.start_date), proposed)

\* 2. the store query and the overlap loop; a query error fails closed
LiveCheck(store, proposed, dbError) ==
  IF dbError
  THEN Result(FALSE, <<>>, <<Reason("dberror", "")>>, TRUE)
  ELSE OverlapLoop(QueryExisting(store, proposed.room_number,
                                 proposed.start_date), proposed)

\* store: the rows of the bookings table; dbError: the select returned an error
checkBookingConflict(store, proposed, dbError) ==
  IF StaticCheck(proposed) # Passed
  THEN StaticCheck(proposed)
  ELSE LiveCheck(store, proposed, dbError)

\* extractProposedBookings is exported by conflictChecker.js but has no caller

----------------------------------------------------------------------------
(* State                                                                   *)

VARIABLES
  bookings,    \* the rows of the bookings table, in insertion order
  sseClients,  \* the registry of open event-stream channels
  channels,    \* per stream connection: open, heartbeat timer, events written
  cast,        \* the broadcastToClients call made by the last step, if any
  req,         \* per /api/chat request in flight: its position and locals
  probe,       \* the last direct call of a function, outside a handler
  admin,       \* the response of the approve or reject made by the last step
  hook,        \* one useRealtimeBookings instance: its state, refs and timers
  net          \* what the browser of the hook can reach

vars == <<bookings, sseClients, channels, cast, req, probe, admin, hook, net>>

\* model bounds
MaxBookings == 2   \* rows the bookings table may hold
MaxBatch == 2      \* entries in one list produced by the language model
NumIds == 2        \* distinct booking ids Math.random() may produce
NumClients == 2    \* stream connections that may be open at a time
MaxEvents == 3     \* events written to one stream connection

Ids == 1..NumIds
Roles == {"student", "teacher"}
Clients == 1..NumClients

NoCheck == Result(FALSE, <<>>, <<>>, FALSE)
NoParsed == [intent |-> "", bookings |-> <<>>, cancellations |-> <<>>]
NoResponse == [status |-> 0, intent |-> "", bookings |-> <<>>]
NoProposal == [room_number |-> "", start_date |-> <<>>,
               start_time |-> JsUndefined, end_time |-> JsUndefined,
               status |-> ""]

\* a call of checkBookingConflict: its input and its result
Call(proposed, dbError, result) ==
  [called |-> TRUE, proposed |-> proposed, dbError |-> dbError,
   result |-> result]
NoCall == [called |-> FALSE, proposed |-> NoProposal, dbError |-> FALSE,
           result |-> NoCheck]

\* a direct call of timesOverlap: its four arguments and what it returned
Overlap(a, b, c, d, threw, result) ==
  [fn |-> "timesOverlap", args |-> <<a, b, c, d>>, call |-> NoCall,
   threw |-> threw, result |-> result, value |-> Null]
\* a direct call of checkBookingConflict
Validate(call) ==
  [fn |-> "checkBookingConflict", args |-> <<>>, call |-> call,
   threw |-> call.result.threw, result |-> call.result.valid,
   value |-> Null]
\* a direct call of toMinutes: its argument and the number it returned
Minutes(timeStr, value) ==
  [fn |-> "toMinutes", args |-> <<timeStr>>, call |-> NoCall,
   threw |-> value = Throw, result |-> value.k = "num", value |-> value]
NoProbe == [fn |-> "", args |-> <<>>, call |-> NoCall, threw |-> FALSE,
            result |-> FALSE, value |-> Null]

\* the hook before its effect has run: the initial values of useState and
\* useRef, no timer pending and no request in flight
NoHook ==
  [phase |-> "new",
   bookings |-> <<>>,
   schedule |-> [d \in {} |-> <<>>],
   connectionStatus |-> "connecting",
   sseRef |-> 0,
   esClosed |-> FALSE,
   seen |-> 0,
   pollTimerRef |-> 0,
   intervals |-> <<>>,
   isSSEAlive |-> FALSE,
   timeouts |-> <<>>,
   fetches |-> [bookings |-> {}, schedule |-> {}]]

\* the stream endpoint and the fetch endpoints are reachable
Network(streamUp, apiUp) == [streamUp |-> streamUp, apiUp |-> apiUp]
Online == Network(TRUE, TRUE)

\* what an approve or reject handler answered: the HTTP status, and the request it answered
AdminResponse(status, bookingId, newStatus) ==
  [status |-> status, bookingId |-> bookingId, newStatus |-> newStatus]
NoAdmin == AdminResponse(0, 0, "")

\* a handler that is not running: no locals
IdleReq ==
  [pc |-> "idle", role |-> "", extracted |-> <<>>, anyInvalid |-> FALSE,
   conflictReport |-> "null", aiIntent |-> "", aiBookings |-> <<>>,
   parsed |-> NoParsed,
   wi |-> 1, ci |-> 1, lastCheck |-> NoCall, outcome |-> <<>>,
   response |-> NoResponse]

Proposal(room, date, st, en, status) ==
  [room_number |-> room, start_date |-> date, start_time |-> st,
   end_time |-> en, status |-> status]

Cancellation(room, date) == [room_number |-> room, date |-> date]

\* sequences of at most n elements of S
RECURSIVE SeqsUpTo(_, _)
SeqsUpTo(S, n) ==
  IF n <= 0 THEN {<<>>}
  ELSE LET shorter == SeqsUpTo(S, n - 1)
       IN shorter \cup {Append(q, x) : q \in shorter, x \in S}

Max(a, b) == IF a > b THEN a ELSE b
Min(a, b) == IF a < b THEN a ELSE b

----------------------------------------------------------------------------
(* Event broadcaster (the channel registry only)                           *)

\* broadcastToClients: one write per registered channel; the channels whose
\* write throws (dead) are deleted from the registry at the end of the call
\* a record field that is absent from an event's data
NoRecord == [absent |-> TRUE]

\* the data of an event; the timestamp is left out
EventData(eventType, bookingId, newStatus, new, old) ==
  [eventType |-> eventType, bookingId |-> bookingId, newStatus |-> newStatus,
   new |-> new, old |-> old]
NoData == EventData("", 0, "", NoRecord, NoRecord)

\* { eventType: "INSERT", new: newBooking, timestamp }
InsertData(row) == EventData("INSERT", 0, "", row, NoRecord)

\* { eventType: "UPDATE", bookingId, newStatus, timestamp }
UpdateData(bookingId, newStatus) ==
  EventData("UPDATE", bookingId, newStatus, NoRecord, NoRecord)

\* { eventType: "DELETE", old: deleted[0], timestamp }
DeleteData(deleted) == EventData("DELETE", 0, "", NoRecord, deleted[1])

\* an event as written to a stream: its name and its data
Event(event, data) == [event |-> event, data |-> data]

\* a connection that is not open
NoChannel == [open |-> FALSE, heartbeat |-> FALSE, sent |-> <<>>]

\* a call of broadcastToClients: the registry when it started, the number of
\* writes attempted per channel, the channels whose write threw, and the data
Cast(registered, attempts, failed, data) ==
  [registered |-> registered, attempts |-> attempts, failed |-> failed,
   data |-> data]
NoCast == Cast({}, [c \in {} |-> 0], {}, NoData)

\* a variant of the loop in which the first write that throws ends the loop
RECURSIVE WriteAllStopAtFailure(_, _)
WriteAllStopAtFailure(clients, fails) ==
  IF clients = {} THEN [attempts |-> [c \in {} |-> 0], dead |-> {}]
  ELSE LET client == CHOOSE c \in clients : TRUE
           rest == WriteAllStopAtFailure(clients \ {client}, fails)
       IN IF client \in fails
          THEN [attempts |-> client :> 1, dead |-> {client}]
          ELSE [attempts |-> (client :> 1) @@ rest.attempts,
                dead |-> rest.dead]

\* for (const client of sseClients): one write per client, inside try/catch;
\* the clients whose write throws (fails) are pushed to dead
RECURSIVE WriteAll(_, _)
WriteAll(clients, fails) ==
  IF clients = {} THEN [attempts |-> [c \in {} |-> 0], dead |-> {}]
  ELSE LET client == CHOOSE c \in clients : TRUE
           rest == WriteAll(clients \ {client}, fails)
       IN [attempts |-> (client :> 1) @@ rest.attempts,
           dead |-> IF client \in fails THEN rest.dead \cup {client}
                    ELSE rest.dead]

\* the channels that received the event of a call
Delivered(loop) == DOMAIN loop.attempts \ loop.dead

\* a variant of broadcastToClients without the final dead.forEach(delete)
broadcastKeepsDead(data, fails) ==
  LET loop == WriteAll(sseClients, fails)
  IN /\ sseClients' = sseClients
     /\ channels' = [c \in Clients |->
          IF c \in Delivered(loop)
          THEN [channels[c] EXCEPT
                  !.sent = Append(@, Event("booking_change", data))]
          ELSE channels[c]]
     /\ cast' = Cast(sseClients, loop.attempts, fails \cap sseClients, data)

\* broadcastToClients: one write per registered channel; the channels whose
\* write throws are deleted from the registry at the end of the call
broadcastToClients(data, fails) ==
  LET loop == WriteAll(sseClients, fails)
  IN /\ sseClients' = sseClients \ loop.dead
     /\ channels' = [c \in Clients |->
          IF c \in Delivered(loop)
          THEN [channels[c] EXCEPT
                  !.sent = Append(@, Event("booking_change", data))]
          ELSE channels[c]]
     /\ cast' = Cast(sseClients, loop.attempts, fails \cap sseClients, data)

\* a call of broadcastToClients; any write of it may throw
Broadcast(data) ==
  /\ \A c \in sseClients : Len(channels[c].sent) < MaxEvents
  /\ \E fails \in SUBSET sseClients : broadcastToClients(data, fails)

\* a step that does not call broadcastToClients
NoBroadcast == UNCHANGED <<sseClients, channels>> /\ cast' = NoCast

----------------------------------------------------------------------------
(* GET /api/bookings/stream                                                *)

\* a variant of the handler that registers the channel without writing the
\* connected event
ConnectUnannounced(c) ==
  /\ ~channels[c].open
  /\ channels' = [channels EXCEPT
                    ![c] = [open |-> TRUE, heartbeat |-> TRUE, sent |-> <<>>]]
  /\ sseClients' = sseClients \cup {c}
  /\ cast' = NoCast
  /\ UNCHANGED <<bookings, req, probe>>
  /\ admin' = NoAdmin /\ UNCHANGED <<hook, net>>

\* the handler, which runs to its end without an await: write the connected
\* event, add the channel to the registry, start the heartbeat timer and
\* listen for close.  A write that throws leaves the handler before the add.
Connect(c) ==
  /\ ~channels[c].open
  /\ \E writeThrows \in BOOLEAN :
       IF writeThrows
       THEN UNCHANGED <<sseClients, channels>>
       ELSE /\ channels' = [channels EXCEPT
                              ![c] = [open |-> TRUE, heartbeat |-> TRUE,
                                      sent |-> <<Event("connected", NoData)>>]]
            /\ sseClients' = sseClients \cup {c}
  /\ cast' = NoCast
  /\ UNCHANGED <<bookings, req, probe>>
  /\ admin' = NoAdmin /\ UNCHANGED <<hook, net>>

\* the setInterval callback: a heartbeat comment is written; a write that
\* throws clears the timer
Heartbeat(c) ==
  /\ channels[c].heartbeat
  /\ \E writeThrows \in BOOLEAN :
       IF writeThrows
       THEN channels' = [channels EXCEPT ![c].heartbeat = FALSE]
       ELSE UNCHANGED channels
  /\ cast' = NoCast
  /\ UNCHANGED <<bookings, sseClients, req, probe>>
  /\ admin' = NoAdmin /\ UNCHANGED <<hook, net>>

\* req.on("close"): clear the timer and delete the channel from the registry
Close(c) ==
  /\ channels[c].open
  /\ channels' = [channels EXCEPT ![c] = NoChannel]
  /\ sseClients' = sseClients \ {c}
  /\ cast' = NoCast
  /\ UNCHANGED <<bookings, req, probe>>
  /\ admin' = NoAdmin /\ UNCHANGED <<hook, net>>

----------------------------------------------------------------------------
(* POST /api/chat                                                          *)

SetReq(r, new) == req' = [req EXCEPT ![r] = new]

Response(status, parsed) ==
  [status |-> status, intent |-> parsed.intent, bookings |-> parsed.bookings]

\* the catch block of the handler: res.status(500)
Fail500(r, call) ==
  SetReq(r, [req[r] EXCEPT !.pc = "done", !.lastCheck = call,
                           !.response = Response(500, NoParsed)])

\* conflictReport after the STEP 2 loop: has_conflict true or false
Report(anyConflict) == IF anyConflict THEN "conflict" ELSE "clear"

\* STEP 1: the request arrives and the extraction call returns extractedData
\* (a reply that does not parse leaves is_booking_request false); the call
\* itself may fail
ChatExtract(r, Extracts) ==
  /\ req[r].pc = "idle"
  /\ \E role \in Roles, isBooking \in BOOLEAN, list \in Extracts, apiError \in BOOLEAN :
       /\ Len(list) <= Max(1, MaxBookings - Len(bookings))
       /\ IF apiError
          THEN /\ list = <<>> /\ ~isBooking
               /\ SetReq(r, [IdleReq EXCEPT !.pc = "done", !.role = role,
                                            !.response = Response(500, NoParsed)])
          ELSE IF isBooking /\ Len(list) > 0
          THEN SetReq(r, [IdleReq EXCEPT !.pc = "precheck", !.role = role,
                                         !.extracted = list])
          ELSE /\ list = <<>>
               /\ SetReq(r, [IdleReq EXCEPT !.pc = "respond", !.role = role])
  /\ NoBroadcast /\ UNCHANGED <<bookings, probe>>
  /\ admin' = NoAdmin /\ UNCHANGED <<hook, net>>

\* STEP 2: one iteration of the loop over extractedData.bookings
PreCheck(r) ==
  /\ req[r].pc = "precheck"
  /\ \E dbError \in BOOLEAN :
       LET proposed == Head(req[r].extracted)
           rest == Tail(req[r].extracted)
           result == checkBookingConflict(bookings, proposed, dbError)
           anyConflict == req[r].anyInvalid \/ ~result.valid
           call == Call(proposed, dbError, result)
       IN IF result.threw
          THEN Fail500(r, call)
          ELSE IF rest # <<>>
          THEN SetReq(r, [req[r] EXCEPT !.extracted = rest,
                                        !.anyInvalid = anyConflict,
                                        !.lastCheck = call])
          ELSE SetReq(r, [req[r] EXCEPT !.extracted = rest,
                                        !.anyInvalid = anyConflict,
                                        !.lastCheck = call,
                                        !.conflictReport = Report(anyConflict),
                                        !.pc = "respond"])
  /\ NoBroadcast /\ UNCHANGED <<bookings, probe>>
  /\ admin' = NoAdmin /\ UNCHANGED <<hook, net>>

\* a variant of the safety gate that lets the reply through unchanged
SafetyGateOpen(parsed, conflictReport) == parsed

\* STEP 5: the safety gate on the parsed reply
SafetyGate(parsed, conflictReport) ==
  IF parsed.intent = "BOOK" /\ conflictReport = "conflict"
  THEN [parsed EXCEPT !.intent = "CONFLICT", !.bookings = <<>>]
  ELSE parsed

\* where the handler continues after the write loop has handled entry wi - 1
AfterWrite(parsed, wi) ==
  IF parsed.intent = "BOOK" /\ wi <= Len(parsed.bookings) THEN "write"
  ELSE IF parsed.intent = "CANCEL" /\ Len(parsed.cancellations) > 0
  THEN "cancel"
  ELSE "reply"

\* continue at the next await of the handler, or send res.json(parsedData)
\* when none is left
Proceed(rec) ==
  LET next == AfterWrite(rec.parsed, rec.wi)
  IN IF next = "reply"
     THEN [rec EXCEPT !.pc = "done", !.response = Response(200, rec.parsed)]
     ELSE [rec EXCEPT !.pc = next]

Reply3(intent, list, cxs) ==
  [intent |-> intent, bookings |-> list, cancellations |-> cxs]

\* the replies explored: BOOK with every list of Batches; CANCEL with every
\* non-empty list of Cancels; INQUIRY and CONFLICT; and each of the last
\* three also carrying a bookings list, which the handler must not write
Replies(Batches, Cancels, Stray) ==
  {Reply3("BOOK", list, <<>>) : list \in Batches}
    \cup {Reply3("CANCEL", list, cxs) :
            list \in {<<>>, Stray}, cxs \in Cancels \ {<<>>}}
    \cup {Reply3(intent, list, <<>>) :
            intent \in {"INQUIRY", "CONFLICT"}, list \in {<<>>, Stray}}

\* STEP 4 and 5: the full reply of the language model arrives (a reply that
\* does not parse becomes an INQUIRY without bookings) and passes the gate
AIRespond(r, Answers) ==
  /\ req[r].pc = "respond"
  /\ \E answer \in Answers, apiError \in BOOLEAN :
       /\ answer.intent = "BOOK"
            => Len(answer.bookings) <= MaxBookings - Len(bookings)
       /\ IF apiError
          THEN answer = Reply3("INQUIRY", <<>>, <<>>)
               /\ Fail500(r, req[r].lastCheck)
          ELSE LET parsed == SafetyGate(answer, req[r].conflictReport)
               IN SetReq(r, Proceed([req[r] EXCEPT !.aiIntent = answer.intent,
                                                   !.aiBookings = answer.bookings,
                                                   !.lastCheck = NoCall,
                                                   !.parsed = parsed]))
  /\ NoBroadcast /\ UNCHANGED <<bookings, probe>>
  /\ admin' = NoAdmin /\ UNCHANGED <<hook, net>>

\* a variant of the final check that goes on to the insert whatever the
\* verdict (the continue is missing)
FinalCheckNoSkip(r) ==
  /\ req[r].pc = "write"
  /\ \E dbError \in BOOLEAN :
       LET bk == req[r].parsed.bookings[req[r].wi]
           finalCheck == checkBookingConflict(bookings, bk, dbError)
           call == Call(bk, dbError, finalCheck)
       IN IF finalCheck.threw
          THEN Fail500(r, call)
          ELSE SetReq(r, [req[r] EXCEPT !.lastCheck = call,
                                        !.pc = "insert"])
  /\ NoBroadcast /\ UNCHANGED <<bookings, probe>>
  /\ admin' = NoAdmin /\ UNCHANGED <<hook, net>>

\* STEP 6, first await of an iteration: the final check of entry wi
FinalCheck(r) ==
  /\ req[r].pc = "write"
  /\ \E dbError \in BOOLEAN :
       LET bk == req[r].parsed.bookings[req[r].wi]
           finalCheck == checkBookingConflict(bookings, bk, dbError)
           call == Call(bk, dbError, finalCheck)
       IN IF finalCheck.threw
          THEN Fail500(r, call)
          ELSE IF ~finalCheck.valid
          THEN SetReq(r, Proceed([req[r] EXCEPT
                 !.outcome = Append(@, "blocked"),
                 !.lastCheck = call,
                 !.wi = @ + 1]))
          ELSE SetReq(r, [req[r] EXCEPT !.lastCheck = call,
                                        !.pc = "insert"])
  /\ NoBroadcast /\ UNCHANGED <<bookings, probe>>
  /\ admin' = NoAdmin /\ UNCHANGED <<hook, net>>

newBooking(genId, bk, role) ==
  [booking_id |-> genId,
   room_number |-> bk.room_number,
   start_date |-> bk.start_date,
   start_time |-> bk.start_time,
   end_time |-> bk.end_time,
   status |-> IF bk.status # "" THEN bk.status
              ELSE IF role = "student" THEN "Pending" ELSE "Approved",
   owner_role |-> role]

IdInUse(store, id) == \E i \in 1..Len(store) : store[i].booking_id = id

\* STEP 6, second await: the insert of entry wi and the INSERT broadcast.
\* booking_id is UNIQUE in the table, so a repeated id is an insert error.
Insert(r) ==
  /\ req[r].pc = "insert"
  /\ Len(bookings) < MaxBookings
  /\ \E genId \in Ids, storeError \in BOOLEAN :
       LET bk == req[r].parsed.bookings[req[r].wi]
           row == newBooking(genId, bk, req[r].role)
           insertError == storeError \/ IdInUse(bookings, genId)
       IN /\ IF insertError
             THEN UNCHANGED bookings /\ NoBroadcast
             ELSE bookings' = Append(bookings, row)
                  /\ Broadcast(InsertData(row))
          /\ SetReq(r, Proceed([req[r] EXCEPT
               !.outcome = Append(@, IF insertError THEN "failed" ELSE "inserted"),
               !.wi = @ + 1]))
  /\ UNCHANGED probe
  /\ admin' = NoAdmin /\ UNCHANGED <<hook, net>>

\* lower-casing of the modelled room numbers
Lower(room) ==
  CASE room = "CSIS-101" -> "csis-101"
    [] room = "CSIS-102" -> "csis-102"
    [] room = "A-504" -> "a-504"
    [] OTHER -> room

\* .ilike(column, pattern): case-insensitive LIKE; "%" matches any string
ILike(value, pattern) == pattern = "%" \/ Lower(value) = Lower(pattern)

CancelMatches(bk, cx) ==
  ILike(bk.room_number, cx.room_number) /\ bk.start_date = cx.date

\* one iteration of the cancellation loop: delete the matching rows and
\* broadcast one DELETE if any row was deleted; a store error is not examined
Cancel(r) ==
  /\ req[r].pc = "cancel"
  /\ \E storeError \in BOOLEAN :
       LET cx == req[r].parsed.cancellations[req[r].ci]
           deleted == IF storeError THEN <<>>
                      ELSE SelectSeq(bookings, LAMBDA bk : CancelMatches(bk, cx))
           last == req[r].ci >= Len(req[r].parsed.cancellations)
       IN /\ IF storeError
             THEN UNCHANGED bookings
             ELSE bookings' = SelectSeq(bookings,
                                        LAMBDA bk : ~CancelMatches(bk, cx))
          /\ IF Len(deleted) > 0 THEN Broadcast(DeleteData(deleted))
             ELSE NoBroadcast
          /\ SetReq(r, IF last
                        THEN [req[r] EXCEPT
                                !.ci = @ + 1, !.pc = "done",
                                !.response = Response(200, req[r].parsed)]
                        ELSE [req[r] EXCEPT !.ci = @ + 1])
  /\ UNCHANGED probe
  /\ admin' = NoAdmin /\ UNCHANGED <<hook, net>>

\* the handler has returned: its locals are gone
Return(r) ==
  /\ req[r].pc = "done"
  /\ SetReq(r, IdleReq)
  /\ NoBroadcast /\ UNCHANGED <<bookings, probe>>
  /\ admin' = NoAdmin /\ UNCHANGED <<hook, net>>

----------------------------------------------------------------------------
(* POST /api/bookings/approve/:bookingId and /reject/:bookingId            *)

\* no /api/chat request is in flight
Quiescent == \A r \in DOMAIN req : req[r].pc = "idle"

RowsWithId(store, bookingId) ==
  SelectSeq(store, LAMBDA bk : bk.booking_id = bookingId)

\* a variant of the update without the .eq filter
UpdateStatusOfAll(store, bookingId, status) ==
  [k \in 1..Len(store) |-> [store[k] EXCEPT !.status = status]]

\* .update({ status }).eq("booking_id", bookingId)
RECURSIVE UpdateStatus(_, _, _)
UpdateStatus(store, bookingId, status) ==
  IF store = <<>> THEN <<>>
  ELSE <<IF Head(store).booking_id = bookingId
         THEN [Head(store) EXCEPT !.status = status]
         ELSE Head(store)>> \o UpdateStatus(Tail(store), bookingId, status)

\* a variant of the body that updates the row without the broadcast
SetStatusSilent(bookingId, status) ==
  \E fetchError \in BOOLEAN, updateError \in BOOLEAN :
    IF fetchError \/ Len(RowsWithId(bookings, bookingId)) # 1
    THEN /\ ~updateError /\ UNCHANGED bookings /\ NoBroadcast
         /\ admin' = AdminResponse(404, bookingId, status)
    ELSE IF updateError
    THEN /\ UNCHANGED bookings /\ NoBroadcast
         /\ admin' = AdminResponse(500, bookingId, status)
    ELSE /\ bookings' = UpdateStatus(bookings, bookingId, status)
         /\ NoBroadcast
         /\ admin' = AdminResponse(200, bookingId, status)

\* the body shared by the two handlers: .single() fails unless exactly one
\* row has the id (404); an update error is a 500; else update and broadcast
SetStatus(bookingId, status) ==
  \E fetchError \in BOOLEAN, updateError \in BOOLEAN :
    IF fetchError \/ Len(RowsWithId(bookings, bookingId)) # 1
    THEN /\ ~updateError /\ UNCHANGED bookings /\ NoBroadcast
         /\ admin' = AdminResponse(404, bookingId, status)
    ELSE IF updateError
    THEN /\ UNCHANGED bookings /\ NoBroadcast
         /\ admin' = AdminResponse(500, bookingId, status)
    ELSE /\ bookings' = UpdateStatus(bookings, bookingId, status)
         /\ Broadcast(UpdateData(bookingId, status))
         /\ admin' = AdminResponse(200, bookingId, status)

Approve(bookingId) ==
  /\ SetStatus(bookingId, "Approved")
  /\ UNCHANGED <<req, probe, hook, net>>

Reject(bookingId) ==
  /\ SetStatus(bookingId, "Rejected")
  /\ UNCHANGED <<req, probe, hook, net>>

----------------------------------------------------------------------------
(* Direct calls of the exported functions of conflictChecker.js            *)

CallValidate(Proposals) ==
  /\ probe = NoProbe
  /\ \E proposed \in Proposals, dbError \in BOOLEAN :
       probe' = Validate(Call(proposed, dbError,
                              checkBookingConflict(bookings, proposed, dbError)))
  /\ NoBroadcast /\ UNCHANGED <<bookings, req>>
  /\ admin' = NoAdmin /\ UNCHANGED <<hook, net>>

CallOverlap(Times) ==
  /\ probe = NoProbe
  /\ \E a \in Times, b \in Times, c \in Times, d \in Times :
       probe' = Overlap(a, b, c, d, timesOverlapThrows(a, b, c, d),
                        ~timesOverlapThrows(a, b, c, d)
                          /\ timesOverlap(a, b, c, d))
  /\ NoBroadcast /\ UNCHANGED <<bookings, req>>
  /\ admin' = NoAdmin /\ UNCHANGED <<hook, net>>

CallToMinutes(Times) ==
  /\ probe = NoProbe
  /\ \E timeStr \in Times : probe' = Minutes(timeStr, toMinutes(timeStr))
  /\ NoBroadcast /\ UNCHANGED <<bookings, req>>
  /\ admin' = NoAdmin /\ UNCHANGED <<hook, net>>

\* the caller is done with the result
CallReturn ==
  /\ probe # NoProbe
  /\ probe' = NoProbe
  /\ NoBroadcast /\ UNCHANGED <<bookings, req>>
  /\ admin' = NoAdmin /\ UNCHANGED <<hook, net>>

----------------------------------------------------------------------------
(* Inputs of the explored runs                                             *)

Tomorrow == <<"2", "0", "2", "6", "-", "0", "3", "-", "0", "6">>
Yesterday == <<"2", "0", "2", "6", "-", "0", "3", "-", "0", "4">>

T0659 == JsStr(Chars("0", "6", ":", "5", "9"))
T0700 == JsStr(Chars("0", "7", ":", "0", "0"))
T0900 == JsStr(Chars("0", "9", ":", "0", "0"))
T1000 == JsStr(Chars("1", "0", ":", "0", "0"))
T1100 == JsStr(Chars("1", "1", ":", "0", "0"))
T1101 == JsStr(Chars("1", "1", ":", "0", "1"))
T1200 == JsStr(Chars("1", "2", ":", "0", "0"))
T1300 == JsStr(Chars("1", "3", ":", "0", "0"))
T2100 == JsStr(Chars("2", "1", ":", "0", "0"))
T2200 == JsStr(Chars("2", "2", ":", "0", "0"))
T2201 == JsStr(Chars("2", "2", ":", "0", "1"))
T2300 == JsStr(Chars("2", "3", ":", "0", "0"))
T2330 == JsStr(Chars("2", "3", ":", "3", "0"))

\* proposals with well-formed times, as the extraction call returns them
\* (no status field): three slots of one room and day that overlap or touch,
\* the same slot in another room, and a reversed range
WellFormedExtracts ==
  {Proposal("CSIS-101", Today, T0900, T1100, ""),
   Proposal("CSIS-101", Today, T1000, T1200, ""),
   Proposal("CSIS-101", Today, T1100, T1300, ""),
   Proposal("CSIS-102", Today, T0900, T1100, ""),
   Proposal("CSIS-101", Today, T1100, T0900, "")}

\* bookings of the full reply: the same, and one that carries a status field
WellFormedBookings ==
  WellFormedExtracts \cup
  {Proposal("CSIS-101", Today, T0900, T1100, "Rejected")}

\* a bookings list carried by a reply whose intent is not BOOK
StrayBookings == <<Proposal("CSIS-101", Today, T0900, T1100, "")>>

\* time values that are not well-formed "HH:MM" strings
TEmpty == JsStr(<<>>)
TWord == JsStr(<<"a", "b", "c">>)
TNoColon == JsStr(<<"1", "0">>)
T900 == JsNumber(900)

\* proposals of the untrusted source with malformed times, and one sound one
UntrustedBookings ==
  {Proposal("CSIS-101", Today, T0900, T1100, ""),
   Proposal("CSIS-101", Today, TWord, T1000, ""),
   Proposal("CSIS-101", Today, T0900, TNoColon, ""),
   Proposal("CSIS-101", Today, T900, T1000, "")}

\* proposals for the direct calls: sound ones, ones on the thresholds, and
\* ones that fail one or several of the hardcoded rules
ProbeProposals ==
  WellFormedExtracts \cup
  {Proposal("CSIS-101", Tomorrow, T0900, T1100, ""),
   Proposal("CSIS-101", Today, T0700, T1100, ""),
   Proposal("CSIS-101", Today, T2100, T2200, ""),
   Proposal("", Today, T0900, T1100, ""),
   Proposal("CSIS-101", <<>>, T0900, T1100, ""),
   Proposal("CSIS-101", Today, JsUndefined, T1100, ""),
   Proposal("CSIS-101", Today, T0900, TEmpty, ""),
   Proposal("", Yesterday, T2300, TEmpty, ""),
   Proposal("CSIS-101", Today, T0900, T0900, ""),
   Proposal("CSIS-101", Yesterday, T0900, T1100, ""),
   Proposal("CSIS-101", Yesterday, T1100, T0900, ""),
   Proposal("CSIS-101", Yesterday, T2300, T2330, ""),
   Proposal("CSIS-101", Today, T2300, T2330, ""),
   Proposal("CSIS-101", Today, T0659, T0900, ""),
   Proposal("CSIS-101", Today, T2100, T2201, ""),
   Proposal("CSIS-101", Today, T0700, T1101, ""),
   Proposal("CSIS-101", Today, T0659, T1100, ""),
   Proposal("CSIS-101", Today, T1300, T2200, ""),
   Proposal("CSIS-101", Today, TWord, T1000, ""),
   Proposal("CSIS-101", Today, T0900, TNoColon, "")}

ProbeTimes ==
  {T0900, T1000, T1100, T1200, TEmpty, JsUndefined, TWord, TNoColon, T900}

\* rows the table may hold when a direct call is made
Row(id, room, date, st, en, status, role) ==
  [booking_id |-> id, room_number |-> room, start_date |-> date,
   start_time |-> st, end_time |-> en, status |-> status, owner_role |-> role]

ProbeRows ==
  {Row(1, "CSIS-101", Today, T0900, T1100, "Approved", "teacher"),
   Row(2, "CSIS-101", Today, T0900, T1100, "Rejected", "student"),
   Row(3, "CSIS-101", Today, T1100, T1300, "Pending", "student"),
   Row(4, "CSIS-101", Today, T1000, T1200, "Rejected", "student"),
   Row(5, "CSIS-102", Today, T0900, T1100, "Approved", "teacher"),
   Row(6, "CSIS-101", Tomorrow, T0900, T1100, "Pending", "student")}

UniqueIds(store) ==
  \A i, j \in 1..Len(store) :
    store[i].booking_id = store[j].booking_id => i = j

ProbeStores == {st \in SeqsUpTo(ProbeRows, MaxBookings) : UniqueIds(st)}

\* the names held by the rooms table; no handler writes that table
RoomRegistry == {"CSIS-101", "CSIS-102"}

\* proposals for a room of the registry and for a room that is not in it
RoomBookings ==
  {Proposal("CSIS-101", Today, T0900, T1100, ""),
   Proposal("A-504", Today, T0900, T1100, "")}

\* the table when the stream connections are explored: one request to decide
StreamTable ==
  <<Row(1, "CSIS-101", Today, T0900, T1100, "Pending", "student")>>

Cancellations ==
  {Cancellation("CSIS-101", Today), Cancellation("csis-102", Today)}

----------------------------------------------------------------------------
(* Specifications                                                          *)

OneRequest == 1 :> IdleReq

Init ==
  /\ bookings = <<>>
  /\ sseClients = {}
  /\ channels = [c \in Clients |-> NoChannel]
  /\ cast = NoCast
  /\ req = OneRequest
  /\ probe = NoProbe
  /\ admin = NoAdmin
  /\ hook = NoHook
  /\ net = Online

\* /api/chat requests, handled one at a time
ChatNext ==
  \/ \E r \in DOMAIN req :
       ChatExtract(r, SeqsUpTo(WellFormedExtracts, MaxBatch))
  \/ \E r \in DOMAIN req : PreCheck(r)
  \/ \E r \in DOMAIN req :
       AIRespond(r, Replies(SeqsUpTo(WellFormedBookings, MaxBatch),
                            SeqsUpTo(Cancellations, 1), StrayBookings))
  \/ \E r \in DOMAIN req : FinalCheck(r)
  \/ \E r \in DOMAIN req : Insert(r)
  \/ \E r \in DOMAIN req : Cancel(r)
  \/ \E r \in DOMAIN req : Return(r)

SpecChat == Init /\ [][ChatNext]_vars

\* /api/chat requests whose proposals carry malformed times
UntrustedNext ==
  \/ \E r \in DOMAIN req :
       ChatExtract(r, SeqsUpTo(UntrustedBookings, 1))
  \/ \E r \in DOMAIN req : PreCheck(r)
  \/ \E r \in DOMAIN req :
       AIRespond(r, Replies(SeqsUpTo(UntrustedBookings, MaxBatch),
                            SeqsUpTo(Cancellations, 1), StrayBookings))
  \/ \E r \in DOMAIN req : FinalCheck(r)
  \/ \E r \in DOMAIN req : Insert(r)
  \/ \E r \in DOMAIN req : Cancel(r)
  \/ \E r \in DOMAIN req : Return(r)

SpecUntrusted == Init /\ [][UntrustedNext]_vars

\* /api/chat requests that name a room the rooms table does not hold
RoomsNext ==
  \/ \E r \in DOMAIN req :
       ChatExtract(r, SeqsUpTo(RoomBookings, MaxBatch))
  \/ \E r \in DOMAIN req : PreCheck(r)
  \/ \E r \in DOMAIN req :
       AIRespond(r, Replies(SeqsUpTo(RoomBookings, MaxBatch),
                            SeqsUpTo(Cancellations, 1), StrayBookings))
  \/ \E r \in DOMAIN req : FinalCheck(r)
  \/ \E r \in DOMAIN req : Insert(r)
  \/ \E r \in DOMAIN req : Cancel(r)
  \/ \E r \in DOMAIN req : Return(r)

SpecRooms == Init /\ [][RoomsNext]_vars

\* direct calls of checkBookingConflict and timesOverlap on a given table
InitPure ==
  /\ bookings \in ProbeStores
  /\ sseClients = {}
  /\ channels = [c \in Clients |-> NoChannel]
  /\ cast = NoCast
  /\ req = OneRequest
  /\ probe = NoProbe
  /\ admin = NoAdmin
  /\ hook = NoHook
  /\ net = Online

PureNext ==
  \/ CallValidate(ProbeProposals)
  \/ CallOverlap(ProbeTimes)
  \/ CallToMinutes(ProbeTimes)
  \/ CallReturn

SpecPure == InitPure /\ [][PureNext]_vars

\* stream connections, heartbeats and disconnects, and the admin's approve
\* and reject, whose broadcasts go to the registered channels
InitStream ==
  /\ bookings = StreamTable
  /\ sseClients = {}
  /\ channels = [c \in Clients |-> NoChannel]
  /\ cast = NoCast
  /\ req = OneRequest
  /\ probe = NoProbe
  /\ admin = NoAdmin
  /\ hook = NoHook
  /\ net = Online

StreamNext ==
  \/ \E c \in Clients : Connect(c)
  \/ \E c \in Clients : Heartbeat(c)
  \/ \E c \in Clients : Close(c)
  \/ \E bookingId \in Ids : Approve(bookingId)
  \/ \E bookingId \in Ids : Reject(bookingId)

SpecStream == InitStream /\ [][StreamNext]_vars

\* /api/chat requests and the admin's approve and reject, one at a time
Next ==
  \/ ChatNext
  \/ Quiescent /\ \E bookingId \in Ids : Approve(bookingId)
  \/ Quiescent /\ \E bookingId \in Ids : Reject(bookingId)

Spec == Init /\ [][Next]_vars

----------------------------------------------------------------------------
(* Properties                                                              *)

\* minutes since midnight of a well-formed "HH:MM"
HHMM(t) ==
  (10 * DigitVal(t.s[1]) + DigitVal(t.s[2])) * 60
    + 10 * DigitVal(t.s[4]) + DigitVal(t.s[5])

WellFormedTime(t) ==
  /\ t.t = "str" /\ Len(t.s) = 5 /\ t.s[3] = ":"
  /\ \A i \in {1, 2, 4, 5} : t.s[i] \in Digits
  /\ 10 * DigitVal(t.s[1]) + DigitVal(t.s[2]) <= 23
  /\ 10 * DigitVal(t.s[4]) + DigitVal(t.s[5]) <= 59

Active(bk) == bk.status \in {"Pending", "Approved"}

SameRoomAndDate(a, b) ==
  a.room_number = b.room_number /\ a.start_date = b.start_date

\* the half-open ranges [start, end) of two records intersect
RangesIntersect(a, b) ==
  Max(HHMM(a.start_time), HHMM(b.start_time))
    < Min(HHMM(a.end_time), HHMM(b.end_time))

\* C1: after any sequence of /api/chat requests handled one at a time on
\* proposals with well-formed times, no two Pending or Approved bookings of
\* the same room and date have intersecting [start_time, end_time) ranges.
C1_NoActiveOverlap ==
  \A i, j \in 1..Len(bookings) :
    (i < j /\ Active(bookings[i]) /\ Active(bookings[j])
       /\ SameRoomAndDate(bookings[i], bookings[j]))
      => ~RangesIntersect(bookings[i], bookings[j])

\* two active bookings of one room and day stand side by side in the table
C1_Witness ==
  \E i, j \in 1..Len(bookings) :
    /\ i < j /\ Active(bookings[i]) /\ Active(bookings[j])
    /\ SameRoomAndDate(bookings[i], bookings[j])
    /\ HHMM(bookings[i].end_time) = HHMM(bookings[j].start_time)
         \/ HHMM(bookings[j].end_time) = HHMM(bookings[i].start_time)

\* C2: in every reachable state of the table, under create, approve, reject
\* and cancel executed one at a time, the active (Pending or Approved)
\* bookings of one room and date are pairwise disjoint in time.
C2_ActiveBookingsDisjoint ==
  LET active == {i \in 1..Len(bookings) : Active(bookings[i])}
  IN \A i \in active : \A j \in active \ {i} :
       SameRoomAndDate(bookings[i], bookings[j])
         => ~RangesIntersect(bookings[i], bookings[j])

\* the entries of the write loop that request r has dealt with so far
Entry(r, i) == req[r].parsed.bookings[i]

MutuallyOverlapping(a, b) ==
  /\ WellFormedTime(a.start_time) /\ WellFormedTime(a.end_time)
  /\ WellFormedTime(b.start_time) /\ WellFormedTime(b.end_time)
  /\ HHMM(a.start_time) < HHMM(a.end_time)
  /\ HHMM(b.start_time) < HHMM(b.end_time)
  /\ SameRoomAndDate(a, b)
  /\ RangesIntersect(a, b)

\* a step that adds a row is the insert of the entry at hand of some request,
\* that entry was checked in this iteration and found valid, it is valid
\* against the table as it is now, and the row is built from it
C3_InsertIsGated ==
  Len(bookings') > Len(bookings) =>
    \E r \in DOMAIN req :
      /\ req[r].pc = "insert"
      /\ req[r].lastCheck.proposed = Entry(r, req[r].wi)
      /\ req[r].lastCheck.result.valid
      /\ checkBookingConflict(bookings, Entry(r, req[r].wi), FALSE).valid
      /\ \E genId \in Ids :
           bookings' = Append(bookings,
                              newBooking(genId, Entry(r, req[r].wi), req[r].role))

\* a final check that rejects leaves the table alone and the loop goes on
\* with the next entry, if there is one
C3_RejectedIsSkipped ==
  \A r \in DOMAIN req :
    (req[r].pc = "write" /\ req'[r].pc # "insert"
       /\ req'[r].response.status # 500) =>
      /\ bookings' = bookings
      /\ req'[r].wi = req[r].wi + 1
      /\ req'[r].outcome = Append(req[r].outcome, "blocked")
      /\ req'[r].wi <= Len(req[r].parsed.bookings) => req'[r].pc = "write"

\* of two mutually overlapping entries of one batch the later one is
\* inserted only if the earlier one was not inserted or went in as Rejected
C3_AtMostOneActive ==
  \A r \in DOMAIN req :
    \A i, j \in 1..Len(req[r].outcome) :
      (i < j /\ MutuallyOverlapping(Entry(r, i), Entry(r, j))
         /\ req[r].outcome[j] = "inserted")
        => \/ req[r].outcome[i] # "inserted"
           \/ newBooking(1, Entry(r, i), req[r].role).status = "Rejected"

\* C3 (as amended): a booking is inserted only if checkBookingConflict, run on
\* that record in the same iteration of the write loop, returned valid; a
\* rejected entry is skipped and the loop continues; of two mutually
\* overlapping entries of one batch the second is inserted only if the first
\* was not inserted or was inserted with status Rejected.
C3_WriteGate ==
  [][C3_InsertIsGated /\ C3_RejectedIsSkipped /\ C3_AtMostOneActive']_vars

\* a batch of two mutually overlapping entries: the first was rejected and
\* skipped, the second was then checked and inserted
C3_Witness ==
  \E r \in DOMAIN req :
    /\ req[r].outcome = <<"blocked", "inserted">>
    /\ MutuallyOverlapping(Entry(r, 1), Entry(r, 2))

\* C3 (as stated): of two mutually overlapping bookings of one batch at most
\* the first is inserted.
C3_AtMostTheFirst ==
  \A r \in DOMAIN req :
    \A i, j \in 1..Len(req[r].outcome) :
      (i < j /\ MutuallyOverlapping(Entry(r, i), Entry(r, j)))
        => req[r].outcome[j] # "inserted"

\* C4: a request whose pre-validation reported an invalid proposal never
\* reaches the write loop and inserts nothing, whatever the full reply holds;
\* if the reply said BOOK, the response has intent CONFLICT and no bookings.
C4_ConflictBlocksWrites ==
  \A r \in DOMAIN req :
    req[r].conflictReport = "conflict" =>
      /\ req[r].pc \notin {"write", "insert"}
      /\ \A i \in 1..Len(req[r].outcome) : req[r].outcome[i] # "inserted"
      /\ (req[r].aiIntent = "BOOK" /\ req[r].response.status = 200) =>
           /\ req[r].response.intent = "CONFLICT"
           /\ req[r].response.bookings = <<>>

\* the reply said BOOK although the pre-validation had reported a conflict,
\* and the response went out
C4_Witness ==
  \E r \in DOMAIN req :
    /\ req[r].conflictReport = "conflict"
    /\ req[r].aiIntent = "BOOK"
    /\ req[r].pc = "done" /\ req[r].response.status = 200

\* the rules of the validator, stated on the clock times of the proposal
FieldMissing(p) ==
  \/ p.room_number = "" \/ p.start_date = <<>>
  \/ p.start_time \in {JsUndefined, JsStr(<<>>), JsNumber(0)}
  \/ p.end_time \in {JsUndefined, JsStr(<<>>), JsNumber(0)}

WellFormedTimes(p) ==
  WellFormedTime(p.start_time) /\ WellFormedTime(p.end_time)

\* YYYYMMDD of a "YYYY-MM-DD" date, as a number
DateNumber(d) ==
  DecimalValue(SubSeq(d, 1, 4)) * 10000
    + DecimalValue(SubSeq(d, 6, 7)) * 100 + DecimalValue(SubSeq(d, 9, 10))

\* the first rule a proposal fails, in the order missing field, start not
\* before end, date before today, outside 07:00-22:00, longer than 240 minutes
FirstFailing(p) ==
  IF FieldMissing(p) THEN "missing"
  ELSE IF HHMM(p.start_time) >= HHMM(p.end_time) THEN "range"
  ELSE IF DateNumber(p.start_date) < DateNumber(Today) THEN "past"
  ELSE IF HHMM(p.start_time) < 7 * 60 \/ HHMM(p.end_time) > 22 * 60
  THEN "hours"
  ELSE IF HHMM(p.end_time) - HHMM(p.start_time) > 4 * 60 THEN "duration"
  ELSE "none"

PassesStaticRules(p) ==
  ~FieldMissing(p) /\ WellFormedTimes(p) /\ FirstFailing(p) = "none"

\* a call whose store query returned an error, on a proposal that passes the
\* static rules, returned valid=false, no conflicts and the database reason
C5_QueryErrorIsInvalid ==
  \A r \in DOMAIN req :
    LET c == req[r].lastCheck
    IN (c.called /\ c.dbError /\ PassesStaticRules(c.proposed)) =>
         /\ ~c.result.threw /\ ~c.result.valid
         /\ c.result.conflicts = <<>>
         /\ c.result.reasons = <<Reason("dberror", "")>>

\* a step that adds a row follows a check of that record whose query succeeded
C5_NoInsertAfterQueryError ==
  Len(bookings') > Len(bookings) =>
    \E r \in DOMAIN req :
      /\ req[r].lastCheck.called
      /\ req[r].lastCheck.proposed = Entry(r, req[r].wi)
      /\ ~req[r].lastCheck.dbError
      /\ bookings' = Append(bookings,
                            newBooking(bookings'[Len(bookings')].booking_id,
                                       Entry(r, req[r].wi), req[r].role))

\* C5: when the store query inside checkBookingConflict returns an error, the
\* result is valid=false with no conflicts and a reason citing the database
\* error, for every proposal that passed the static rules; the write loop
\* never inserts a booking whose availability query failed.
C5_FailClosed ==
  [](C5_QueryErrorIsInvalid) /\ [][C5_NoInsertAfterQueryError]_vars

\* the final check of an entry that passes the static rules hit a query error
\* and the entry was skipped
C5_Witness ==
  \E r \in DOMAIN req :
    /\ req[r].lastCheck.called /\ req[r].lastCheck.dbError
    /\ PassesStaticRules(req[r].lastCheck.proposed)
    /\ req[r].outcome # <<>>
    /\ req[r].outcome[Len(req[r].outcome)] = "blocked"
    /\ req[r].lastCheck.proposed = Entry(r, Len(req[r].outcome))

\* C6: for every proposal of the untrusted source, also one whose start_time
\* or end_time is not a well-formed HH:MM string, checkBookingConflict does
\* not throw and returns valid=false with a reason, and the write loop never
\* goes on to insert such a booking.
C6_MalformedIsRejected ==
  \A r \in DOMAIN req :
    LET c == req[r].lastCheck
    IN /\ (c.called /\ ~WellFormedTimes(c.proposed)) =>
            /\ ~c.result.threw
            /\ ~c.result.valid
            /\ c.result.reasons # <<>>
       /\ req[r].pc = "insert" => WellFormedTimes(Entry(r, req[r].wi))

\* the rows of the table that are not Rejected
WithoutRejected(store) == SelectSeq(store, LAMBDA bk : bk.status # "Rejected")

SameSlot(bk, p) ==
  /\ bk.room_number = p.room_number /\ bk.start_date = p.start_date
  /\ bk.start_time = p.start_time /\ bk.end_time = p.end_time

\* C7: a Rejected booking never appears in the conflicts of a proposal and
\* never makes a proposal invalid (the verdict is the one the table without
\* its Rejected rows gives); a proposal that passes the static rules, on a
\* table holding only Rejected bookings (one of them in exactly its slot),
\* validates as valid with no conflicts.
C7_RejectedNeverConflicts ==
  probe.fn = "checkBookingConflict" =>
    LET c == probe.call
    IN /\ \A i \in 1..Len(c.result.conflicts) :
            /\ c.result.conflicts[i].status # "Rejected"
            /\ \A k \in 1..Len(bookings) :
                 bookings[k].booking_id = c.result.conflicts[i].booking_id
                   => bookings[k].status # "Rejected"
       /\ c.result = checkBookingConflict(WithoutRejected(bookings),
                                          c.proposed, c.dbError)
       /\ (/\ \A k \in 1..Len(bookings) : bookings[k].status = "Rejected"
           /\ PassesStaticRules(c.proposed) /\ ~c.dbError)
            => c.result.valid /\ c.result.conflicts = <<>>

\* a proposal for exactly the slot of a Rejected booking, nothing else in the
\* table, was validated
C7_Witness ==
  /\ probe.fn = "checkBookingConflict"
  /\ Len(bookings) = 1 /\ bookings[1].status = "Rejected"
  /\ SameSlot(bookings[1], probe.call.proposed)
  /\ PassesStaticRules(probe.call.proposed)
  /\ ~probe.call.dbError /\ probe.result

\* the arguments of a direct call of timesOverlap are two proper ranges
ProperRanges(args) ==
  /\ \A i \in 1..4 : WellFormedTime(args[i])
  /\ HHMM(args[1]) < HHMM(args[2]) /\ HHMM(args[3]) < HHMM(args[4])

MinutesOfDay == 0..(24 * 60 - 1)

\* some minute lies in both [a, b) and [c, d)
ShareAMinute(a, b, c, d) ==
  \E m \in MinutesOfDay : a <= m /\ m < b /\ c <= m /\ m < d

\* C8: for well-formed times with startA < endA and startB < endB,
\* timesOverlap is true exactly when [startA, endA) and [startB, endB) share
\* a minute, i.e. iff startA < endB and startB < endA; ranges that only touch
\* do not overlap; and a proposal that passes the static rules and whose
\* range intersects no active booking of its room and date (it may touch
\* them) validates as valid.
C8_HalfOpenOverlap ==
  /\ (probe.fn = "timesOverlap" /\ ProperRanges(probe.args)) =>
       LET a == HHMM(probe.args[1])
           b == HHMM(probe.args[2])
           c == HHMM(probe.args[3])
           d == HHMM(probe.args[4])
       IN /\ ~probe.threw
          /\ probe.result <=> ShareAMinute(a, b, c, d)
          /\ probe.result <=> (a < d /\ c < b)
          /\ (b = c \/ d = a) => ~probe.result
  /\ (/\ probe.fn = "checkBookingConflict"
      /\ PassesStaticRules(probe.call.proposed) /\ ~probe.call.dbError
      /\ \A k \in 1..Len(bookings) :
           (Active(bookings[k])
              /\ SameRoomAndDate(bookings[k], probe.call.proposed))
             => ~RangesIntersect(bookings[k], probe.call.proposed))
       => probe.result /\ probe.call.result.conflicts = <<>>

\* timesOverlap was called on two proper ranges, the first ending at the
\* minute the second starts
C8_Witness ==
  /\ probe.fn = "timesOverlap" /\ ProperRanges(probe.args)
  /\ probe.args[2] = probe.args[3]
  /\ ~probe.result

\* C9: timesOverlap is symmetric in its two ranges: for all time values a, b,
\* c, d (well-formed, empty, missing or malformed), timesOverlap(a, b, c, d)
\* returns, or throws, as timesOverlap(c, d, a, b) does.
C9_OverlapSymmetric ==
  probe.fn = "timesOverlap" =>
    LET a == probe.args[1]
        b == probe.args[2]
        c == probe.args[3]
        d == probe.args[4]
    IN /\ probe.threw = timesOverlapThrows(c, d, a, b)
       /\ probe.result = (~timesOverlapThrows(c, d, a, b)
                            /\ timesOverlap(c, d, a, b))

\* timesOverlap returned true for two different ranges
C9_Witness ==
  /\ probe.fn = "timesOverlap"
  /\ <<probe.args[1], probe.args[2]>> # <<probe.args[3], probe.args[4]>>
  /\ probe.result

\* C10: a proposal that fails a static rule (missing field; start not before
\* end; date before today; outside 07:00-22:00; longer than 240 minutes) gets
\* valid=false with exactly one reason, that of the first failing rule in
\* this order, no conflicts, and no store query is issued.  The rules are
\* read on proposals whose time fields are missing or well-formed HH:MM.
C10_FirstFailingRule ==
  (/\ probe.fn = "checkBookingConflict"
   /\ FieldMissing(probe.call.proposed) \/ WellFormedTimes(probe.call.proposed)
   /\ FirstFailing(probe.call.proposed) # "none") =>
    LET res == probe.call.result
    IN /\ ~res.threw /\ ~res.valid
       /\ res.reasons = <<Reason(FirstFailing(probe.call.proposed), "")>>
       /\ res.conflicts = <<>>
       /\ ~res.queried

\* a proposal that fails both the date rule and the hours rule was validated
\* on a table that holds a booking
C10_Witness ==
  /\ probe.fn = "checkBookingConflict"
  /\ WellFormedTimes(probe.call.proposed)
  /\ FirstFailing(probe.call.proposed) = "past"
  /\ HHMM(probe.call.proposed.end_time) > 22 * 60
  /\ bookings # <<>>
  /\ probe.call.result.reasons = <<Reason("past", "")>>

\* the proposal is inside the operating hours and not longer than 240 minutes
WithinHoursAndDuration(p) ==
  /\ WellFormedTimes(p)
  /\ 7 * 60 <= HHMM(p.start_time)
  /\ HHMM(p.start_time) < HHMM(p.end_time)
  /\ HHMM(p.end_time) <= 22 * 60
  /\ HHMM(p.end_time) - HHMM(p.start_time) <= 4 * 60

\* the reasons of the operating-hours and the max-duration rule
HoursOrDuration == {Reason("hours", ""), Reason("duration", "")}

\* the thresholds are inclusive: 07:00, 22:00 and 240 minutes pass the two
\* rules; 06:59, 22:01 and 241 minutes do not
ThresholdsInclusive ==
  LET p == probe.call.proposed
      res == probe.call.result
  IN (WellFormedTimes(p) /\ ~FieldMissing(p)
        /\ HHMM(p.start_time) < HHMM(p.end_time)
        /\ DateNumber(p.start_date) >= DateNumber(Today)) =>
       /\ (/\ HHMM(p.start_time) >= 7 * 60 /\ HHMM(p.end_time) <= 22 * 60
           /\ HHMM(p.end_time) - HHMM(p.start_time) <= 4 * 60)
            => \A i \in 1..Len(res.reasons) : res.reasons[i] \notin HoursOrDuration
       /\ (HHMM(p.start_time) < 7 * 60 \/ HHMM(p.end_time) > 22 * 60)
            => res.reasons = <<Reason("hours", "")>>
       /\ (/\ HHMM(p.start_time) >= 7 * 60 /\ HHMM(p.end_time) <= 22 * 60
           /\ HHMM(p.end_time) - HHMM(p.start_time) > 4 * 60)
            => res.reasons = <<Reason("duration", "")>>

\* C11: every proposal that checkBookingConflict reports valid satisfies
\* 07:00 <= start_time < end_time <= 22:00 and end_time - start_time <= 240
\* minutes, and the thresholds are inclusive (07:00, 22:00 and 240 minutes
\* are not rejected by the two rules; 06:59, 22:01 and 241 minutes are).
C11_ValidIsWithinHours ==
  probe.fn = "checkBookingConflict" =>
    /\ (~probe.threw /\ probe.result)
         => WithinHoursAndDuration(probe.call.proposed)
    /\ ThresholdsInclusive

\* the same for the proposals whose times are well-formed HH:MM
C11_WellFormedValidIsWithinHours ==
  (probe.fn = "checkBookingConflict" /\ WellFormedTimes(probe.call.proposed))
    => C11_ValidIsWithinHours

\* the rows of the table that a proposal collides with: same room and date,
\* not Rejected, time ranges intersecting
Colliding(p) ==
  {k \in 1..Len(bookings) :
     /\ SameRoomAndDate(bookings[k], p)
     /\ bookings[k].status # "Rejected"
     /\ RangesIntersect(bookings[k], p)}

\* conflict entry c describes row bk
Describes(c, bk) ==
  /\ c.booking_id = bk.booking_id /\ c.room_number = bk.room_number
  /\ c.date = bk.start_date /\ c.start_time = bk.start_time
  /\ c.end_time = bk.end_time /\ c.status = bk.status
  /\ c.held_by = bk.owner_role

\* C12: when the static rules pass and the store query succeeds, conflicts
\* holds exactly one entry for each existing booking of the same room and
\* date, not Rejected, whose time range overlaps the proposal, and no other
\* entry; reasons has one entry per conflict; valid iff conflicts is empty.
C12_ConflictsAreTheOverlaps ==
  (/\ probe.fn = "checkBookingConflict"
   /\ PassesStaticRules(probe.call.proposed) /\ ~probe.call.dbError) =>
    LET res == probe.call.result
        hits == Colliding(probe.call.proposed)
    IN /\ ~res.threw /\ res.queried
       /\ Len(res.conflicts) = Cardinality(hits)
       /\ \A k \in hits :
            Cardinality({i \in 1..Len(res.conflicts) :
                           Describes(res.conflicts[i], bookings[k])}) = 1
       /\ \A i \in 1..Len(res.conflicts) :
            \E k \in hits : Describes(res.conflicts[i], bookings[k])
       /\ Len(res.reasons) = Len(res.conflicts)
       /\ \A i \in 1..Len(res.conflicts) :
            res.reasons[i] = Reason("conflict", res.conflicts[i].booking_id)
       /\ res.valid <=> res.conflicts = <<>>

\* a proposal that collides with two bookings of the table was validated
C12_Witness ==
  /\ probe.fn = "checkBookingConflict"
  /\ PassesStaticRules(probe.call.proposed) /\ ~probe.call.dbError
  /\ Cardinality(Colliding(probe.call.proposed)) = 2
  /\ Len(probe.call.result.conflicts) = 2

\* C13: the status of a booking only ever changes from Pending to Approved
\* or from Pending to Rejected: approve and reject never change the status of
\* a booking that is already Approved or Rejected; such a booking leaves its
\* state only by deletion.
C13_OnlyPendingIsDecided ==
  [][\A i \in 1..Len(bookings) : \A j \in 1..Len(bookings') :
       (/\ bookings[i].booking_id = bookings'[j].booking_id
        /\ bookings[i].status # bookings'[j].status)
         => /\ bookings[i].status = "Pending"
            /\ bookings'[j].status \in {"Approved", "Rejected"}]_vars

\* C14: every booking the write loop inserts starts Pending when the role is
\* student and Approved otherwise, whatever status the proposal carries; no
\* booking is created with any other initial status.
C14_InitialStatusByRole ==
  [][Len(bookings') > Len(bookings) =>
       \E r \in DOMAIN req :
         /\ req[r].pc = "insert"
         /\ bookings'[Len(bookings')].owner_role = req[r].role
         /\ bookings'[Len(bookings')].status =
              IF req[r].role = "student" THEN "Pending" ELSE "Approved"]_vars

\* C15: every booking the write loop inserts names a room that is in the
\* room registry at the time of the insert; a proposal naming a room that is
\* not in the registry is never written.
C15_RoomsAreRegistered ==
  \A i \in 1..Len(bookings) : bookings[i].room_number \in RoomRegistry

\* the request is answered (200) and its write loop did not run at all
AnsweredWithoutWrites(r) ==
  /\ req[r].pc = "done" /\ req[r].response.status = 200
  /\ req[r].outcome = <<>>

\* C16: in a multi-booking request each proposed booking is validated and
\* written independently: a booking of the reply that itself passes
\* validation is not left unwritten because another booking of the batch
\* failed validation, at any stage of the request.
C16_ValidEntryIsWritten ==
  \A r \in DOMAIN req :
    (/\ AnsweredWithoutWrites(r) /\ req[r].aiIntent = "BOOK"
     /\ Len(req[r].aiBookings) > 1
     /\ \E j \in 1..Len(req[r].aiBookings) :
          ~checkBookingConflict(bookings, req[r].aiBookings[j], FALSE).valid) =>
      \A i \in 1..Len(req[r].aiBookings) :
        ~checkBookingConflict(bookings, req[r].aiBookings[i], FALSE).valid

\* C17: when the write loop does not insert a booking of a batch (its final
\* validation rejected it or the insert returned a store error), the response
\* identifies that entry as failed; the response never reports as booked
\* (intent BOOK with the entry in bookings) an entry that was not inserted.
C17_ResponseReportsOnlyInserted ==
  \A r \in DOMAIN req :
    (/\ req[r].pc = "done" /\ req[r].response.status = 200
     /\ req[r].response.intent = "BOOK") =>
      /\ Len(req[r].outcome) = Len(req[r].response.bookings)
      /\ \A i \in 1..Len(req[r].response.bookings) :
           req[r].outcome[i] = "inserted"

\* the channels of the last call whose write succeeded
Succeeded == cast.registered \ cast.failed

\* C18: at the end of every broadcastToClients call the registry contains
\* none of the channels whose write failed during that call and still
\* contains every channel whose write succeeded.
C18_DeadChannelsLeave ==
  /\ cast.failed \cap sseClients = {}
  /\ Succeeded \subseteq sseClients
  /\ cast # NoCast => sseClients = Succeeded

\* a call in which one write failed and another succeeded
C18_Witness ==
  /\ cast.failed # {} /\ Succeeded # {}
  /\ sseClients = Succeeded

\* the last call attempted one write on each channel registered at its start
C19_OneWriteEach ==
  /\ DOMAIN cast.attempts = cast.registered
  /\ \A c \in cast.registered : cast.attempts[c] = 1
  /\ cast.failed \subseteq cast.registered

\* a step that makes a call works on the registry as it was before the step
\* and appends the event to exactly the channels whose write succeeded
C19_WholeRegistryServed ==
  cast' # NoCast =>
    /\ cast'.registered = sseClients
    /\ \A c \in Clients :
         IF c \in sseClients \ cast'.failed
         THEN /\ Len(channels'[c].sent) = Len(channels[c].sent) + 1
              /\ SubSeq(channels'[c].sent, 1, Len(channels[c].sent))
                   = channels[c].sent
              /\ channels'[c].sent[Len(channels'[c].sent)].event
                   = "booking_change"
         ELSE channels'[c] = channels[c]

\* C19: each broadcast attempts exactly one write to every channel that is
\* registered when it starts, however many of them fail: a failing channel
\* never keeps another registered channel from receiving the event, and
\* connects and disconnects do not interleave with the iteration.
C19_EveryChannelWritten ==
  [](C19_OneWriteEach) /\ [][C19_WholeRegistryServed]_vars

\* two channels were registered, the write to one failed, the other received
\* the event after its connected event
C19_Witness ==
  /\ Cardinality(cast.registered) = 2 /\ Cardinality(cast.failed) = 1
  /\ \A c \in Succeeded :
       /\ Len(channels[c].sent) = 2
          /\ channels[c].sent[1] = Event("connected", NoData)
          /\ channels[c].sent[2].event = "booking_change"
          /\ channels[c].sent[2].data.eventType = "UPDATE"

\* what a channel has been sent starts with its connected event
C20_ConnectedIsFirst ==
  \A c \in Clients :
    /\ c \in sseClients => channels[c].sent # <<>>
    /\ channels[c].sent # <<>> =>
         /\ channels[c].sent[1] = Event("connected", NoData)
         /\ \A i \in 2..Len(channels[c].sent) :
              channels[c].sent[i].event = "booking_change"

\* a step that opens a connection writes connected to that channel only
C20_ConnectedToNewChannelOnly ==
  \A c \in Clients :
    (~channels[c].open /\ channels'[c].open) =>
      /\ channels'[c].sent = <<Event("connected", NoData)>>
      /\ \A d \in Clients \ {c} : channels'[d] = channels[d]

\* C20: on every stream connection the first event written to the channel is
\* connected, written to that new channel only; no booking_change event is
\* written to a channel before its connected event, under any interleaving
\* of connections with broadcasts.
C20_ConnectedFirst ==
  [](C20_ConnectedIsFirst) /\ [][C20_ConnectedToNewChannelOnly]_vars

\* a channel that connected after a broadcast reached another channel
C20_Witness ==
  \E c, d \in sseClients :
    /\ Len(channels[c].sent) = 2
    /\ channels[d].sent = <<Event("connected", NoData)>>

\* the channels whose heartbeat write threw: still open, timer cleared
HeartbeatFailed == {c \in Clients : channels[c].open /\ ~channels[c].heartbeat}

\* C21: when a heartbeat write to a channel fails, the channel is removed
\* from the registry exactly as after a failed broadcast write: it is no
\* longer a member of the registry and no later broadcast writes to it.
C21_FailedHeartbeatLeavesRegistry ==
  /\ HeartbeatFailed \cap sseClients = {}
  /\ HeartbeatFailed \cap cast.registered = {}

\* what the chat requests propose while the admin decides
AnnouncedBookings == {Proposal("CSIS-101", Today, T0900, T1100, "")}

\* /api/chat requests for one slot and the admin's approve and reject, one
\* at a time
AnnounceNext ==
  \/ \E r \in DOMAIN req : ChatExtract(r, SeqsUpTo(AnnouncedBookings, 1))
  \/ \E r \in DOMAIN req : PreCheck(r)
  \/ \E r \in DOMAIN req :
       AIRespond(r, Replies(SeqsUpTo(AnnouncedBookings, 1),
                            SeqsUpTo(Cancellations, 1), StrayBookings))
  \/ \E r \in DOMAIN req : FinalCheck(r)
  \/ \E r \in DOMAIN req : Insert(r)
  \/ \E r \in DOMAIN req : Cancel(r)
  \/ \E r \in DOMAIN req : Return(r)
  \/ Quiescent /\ \E bookingId \in Ids : Approve(bookingId)
  \/ Quiescent /\ \E bookingId \in Ids : Reject(bookingId)

SpecAnnounce == Init /\ [][AnnounceNext]_vars

\* the step appended a row to the table
Inserted == Len(bookings') = Len(bookings) + 1

\* the step ended an iteration of the write loop without an insert
NotInserted(r) ==
  /\ Len(req'[r].outcome) = Len(req[r].outcome) + 1
  /\ req'[r].outcome[Len(req'[r].outcome)] \in {"blocked", "failed"}

\* a step that succeeds in a mutation makes one call that names the booking
C22_SuccessIsAnnounced ==
  /\ Inserted => cast'.data = InsertData(bookings'[Len(bookings')])
  /\ admin'.status = 200 =>
       cast'.data = UpdateData(admin'.bookingId, admin'.newStatus)

\* a step whose mutation fails makes no call and leaves the table alone
C22_FailureIsSilent ==
  /\ admin'.status \in {404, 500} => cast' = NoCast /\ bookings' = bookings
  /\ \A r \in DOMAIN req :
       NotInserted(r) => cast' = NoCast /\ bookings' = bookings

\* an INSERT or UPDATE call is made by a successful mutation only
C22_OnlySuccessAnnounces ==
  /\ cast'.data.eventType = "INSERT" => Inserted
  /\ cast'.data.eventType = "UPDATE" => admin'.status = 200

\* C22: every successful booking insert, approve and reject is followed within
\* the same request by exactly one booking_change broadcast of the matching
\* type (INSERT, UPDATE, UPDATE) that names that booking, and a mutation that
\* does not succeed (store error, booking not found, validation rejection)
\* broadcasts nothing.
C22_MutationsAreAnnounced ==
  [][C22_SuccessIsAnnounced /\ C22_FailureIsSilent
       /\ C22_OnlySuccessAnnounces]_vars

\* a reject of a booking that a chat request inserted has been announced
C22_Witness ==
  /\ admin = AdminResponse(200, admin.bookingId, "Rejected")
  /\ cast.data = UpdateData(admin.bookingId, "Rejected")
  /\ \E i \in 1..Len(bookings) :
       /\ bookings[i].booking_id = admin.bookingId
       /\ bookings[i].status = "Rejected"
       /\ bookings[i].owner_role = "student"

\* the rows of the table that the step removed
Removed ==
  {bookings[i] : i \in {j \in 1..Len(bookings) :
                          ~IdInUse(bookings', bookings[j].booking_id)}}

\* the call of the step is a DELETE that carries the id and date of the row
AnnouncesDelete(row) ==
  /\ cast'.data.eventType = "DELETE"
  /\ cast'.data.old.booking_id = row.booking_id
  /\ cast'.data.old.start_date = row.start_date

\* C23: when a cancel removes the bookings matching a room and date, every
\* removed booking row is announced to the connected clients by a DELETE
\* event carrying that row's id and date, also when the cancel removes more
\* than one row.
C23_EveryRemovedRowAnnounced ==
  [][\A row \in Removed : AnnouncesDelete(row)]_vars

----------------------------------------------------------------------------
(* useRealtimeBookings.js: the reducer of the client hook                  *)

\* b.booking_id; undefined (0) when the record has no such field
BookingId(b) == IF "booking_id" \in DOMAIN b THEN b.booking_id ELSE 0

\* b.start_date; undefined (the empty string) when the record has none
StartDate(b) == IF "start_date" \in DOMAIN b THEN b.start_date ELSE <<>>

\* b.status; undefined (the empty string) when the record has none
Status(b) == IF "status" \in DOMAIN b THEN b.status ELSE ""

\* list.some(b => b.booking_id === id)
SomeHasId(list, id) == \E i \in 1..Len(list) : BookingId(list[i]) = id

\* list.filter(b => b.booking_id !== id)
FilterOutId(list, id) == SelectSeq(list, LAMBDA b : BookingId(b) # id)

\* { ...b, ...n }
Spread(b, n) ==
  [f \in DOMAIN b \cup DOMAIN n |-> IF f \in DOMAIN n THEN n[f] ELSE b[f]]

\* prev[date] || []
Bucket(schedule, date) ==
  IF date \in DOMAIN schedule THEN schedule[date] ELSE <<>>

\* { ...prev, [date]: list }
WithBucket(schedule, date, list) ==
  [d \in DOMAIN schedule \cup {date} |->
     IF d = date THEN list ELSE schedule[d]]

\* const next = { ...prev }; delete next[date]
WithoutBucket(schedule, date) ==
  [d \in DOMAIN schedule \ {date} |-> schedule[d]]

\* the two pieces of state the reducer patches, and whether it asked for a
\* re-fetch of the schedule
Local(list, schedule, refetch) ==
  [bookings |-> list, schedule |-> schedule, fetchSchedule |-> refetch]

\* a variant of the INSERT branch without the two duplicate checks
applyInsertNoDedupe(local, newRecord) ==
  Local(<<newRecord>> \o local.bookings,
        IF StartDate(newRecord) # <<>> /\ Status(newRecord) # "Rejected"
        THEN WithBucket(local.schedule, StartDate(newRecord),
               Append(Bucket(local.schedule, StartDate(newRecord)), newRecord))
        ELSE local.schedule,
        FALSE)

\* a variant of the INSERT branch that does not look at the status
applyInsertAnyStatus(local, newRecord) ==
  LET date == StartDate(newRecord)
      existing == Bucket(local.schedule, date)
  IN Local(IF SomeHasId(local.bookings, BookingId(newRecord))
           THEN local.bookings
           ELSE <<newRecord>> \o local.bookings,
           IF date # <<>> /\ ~SomeHasId(existing, BookingId(newRecord))
           THEN WithBucket(local.schedule, date, Append(existing, newRecord))
           ELSE local.schedule,
           FALSE)

\* if (eventType === 'INSERT' && newRecord): prepend to the list and append
\* to the date bucket, each unless an entry with the same booking_id is there
applyInsert(local, newRecord) ==
  LET date == StartDate(newRecord)
      existing == Bucket(local.schedule, date)
  IN Local(IF SomeHasId(local.bookings, BookingId(newRecord))
           THEN local.bookings
           ELSE <<newRecord>> \o local.bookings,
           IF date # <<>> /\ Status(newRecord) # "Rejected"
                /\ ~SomeHasId(existing, BookingId(newRecord))
           THEN WithBucket(local.schedule, date, Append(existing, newRecord))
           ELSE local.schedule,
           FALSE)

\* a variant of the UPDATE branch that puts newRecord in the place of the
\* entry with its booking_id
applyUpdateReplace(local, newRecord) ==
  Local([i \in 1..Len(local.bookings) |->
           IF BookingId(local.bookings[i]) = BookingId(newRecord)
           THEN newRecord
           ELSE local.bookings[i]],
        local.schedule,
        TRUE)

\* if (eventType === 'UPDATE' && newRecord): spread newRecord over the entry
\* with its booking_id and re-fetch the schedule
applyUpdate(local, newRecord) ==
  Local([i \in 1..Len(local.bookings) |->
           IF BookingId(local.bookings[i]) = BookingId(newRecord)
           THEN Spread(local.bookings[i], newRecord)
           ELSE local.bookings[i]],
        local.schedule,
        TRUE)

\* if (eventType === 'DELETE' && oldRecord): filter the list and the bucket
\* of oldRecord.start_date by booking_id; delete the bucket if it is empty
applyDelete(local, oldRecord) ==
  LET date == StartDate(oldRecord)
      filtered == FilterOutId(Bucket(local.schedule, date), BookingId(oldRecord))
  IN Local(FilterOutId(local.bookings, BookingId(oldRecord)),
           IF date \notin DOMAIN local.schedule THEN local.schedule
           ELSE IF Len(filtered) = 0 THEN WithoutBucket(local.schedule, date)
           ELSE WithBucket(local.schedule, date, filtered),
           FALSE)

\* applySSEEvent(eventType, newRecord, oldRecord) on the state local
applySSEEvent(local, eventType, newRecord, oldRecord) ==
  IF eventType = "INSERT" /\ newRecord # NoRecord
  THEN applyInsert(local, newRecord)
  ELSE IF eventType = "UPDATE" /\ newRecord # NoRecord
  THEN applyUpdate(local, newRecord)
  ELSE IF eventType = "DELETE" /\ oldRecord # NoRecord
  THEN applyDelete(local, oldRecord)
  ELSE Local(local.bookings, local.schedule, FALSE)

\* the state of the hook that the reducer reads
LocalOf(h) == Local(h.bookings, h.schedule, FALSE)

----------------------------------------------------------------------------
(* GET /api/bookings and GET /api/schedule, as the hook fetches them       *)

RECURSIVE Reverse(_)
Reverse(list) ==
  IF list = <<>> THEN <<>> ELSE Append(Reverse(Tail(list)), Head(list))

\* .select("*").order("id", { ascending: false }): the newest row first
BookingsBody(store) == Reverse(store)

\* .trim().toUpperCase() of the modelled room numbers
Upper(room) ==
  CASE room = "csis-101" -> "CSIS-101"
    [] room = "csis-102" -> "CSIS-102"
    [] room = "a-504" -> "A-504"
    [] OTHER -> room

\* .select("room_number, start_date, start_time, end_time, status")
ScheduleColumns(bk) ==
  [room_number |-> bk.room_number, start_date |-> bk.start_date,
   start_time |-> bk.start_time, end_time |-> bk.end_time,
   status |-> bk.status]

\* filteredBookings.forEach: push each row to the bucket of its start_date
RECURSIVE scheduleMap(_, _)
scheduleMap(rows, map) ==
  IF rows = <<>> THEN map
  ELSE scheduleMap(Tail(rows),
         WithBucket(map, Head(rows).start_date,
                    Append(Bucket(map, Head(rows).start_date), Head(rows))))

\* the body of GET /api/schedule: the rows that are not Rejected and whose
\* room is in the rooms table, with the selected columns, grouped by date
ScheduleBody(store) ==
  LET selected == [i \in 1..Len(store) |-> ScheduleColumns(store[i])]
      filteredBookings ==
        SelectSeq(selected, LAMBDA b : /\ b.status # "Rejected"
                                       /\ Upper(b.room_number) \in RoomRegistry)
  IN scheduleMap(filteredBookings, [d \in {} |-> <<>>])

----------------------------------------------------------------------------
(* useRealtimeBookings.js: the hook, its stream, its timers and fetches    *)

POLL_INTERVAL_NORMAL == 30000
POLL_INTERVAL_FALLBACK == 5000
ReconnectDelay == 5000
RefreshDelay == 300

MaxFetches == 2    \* answered requests of one endpoint not yet handled
MaxTimeouts == 1   \* delayed refreshes pending at a time

\* a fetch in flight: sent, or answered ("ok" with a body, or "failed")
Fetch(state, data) == [state |-> state, data |-> data]
Sent == Fetch("sent", <<>>)
Failed == Fetch("failed", <<>>)

\* a pending setTimeout
Timeout(callback, delay) == [callback |-> callback, delay |-> delay]

\* a step of the hook: the server does nothing
ServerIdle ==
  /\ UNCHANGED <<bookings, sseClients, channels, req, probe>>
  /\ cast' = NoCast /\ admin' = NoAdmin

\* fetchSchedule(), up to its await
fetchSchedule(h) == [h EXCEPT !.fetches.schedule = @ \cup {Sent}]

\* fetchBookings(), up to its await
fetchBookings(h) == [h EXCEPT !.fetches.bookings = @ \cup {Sent}]

\* fetchAll(): both requests are sent
fetchAll(h) == fetchSchedule(fetchBookings(h))

\* clearInterval(id): the timer that id names runs no more; the timers are
\* told apart by their period
RECURSIVE clearInterval(_, _)
clearInterval(intervals, id) ==
  IF intervals = <<>> THEN <<>>
  ELSE IF Head(intervals) = id THEN Tail(intervals)
  ELSE <<Head(intervals)>> \o clearInterval(Tail(intervals), id)

\* a variant of startPolling that does not clear the timer it replaces
startPollingNoClear(h, interval) ==
  [h EXCEPT !.intervals = Append(@, interval), !.pollTimerRef = interval]

\* if (pollTimerRef.current) clearInterval(pollTimerRef.current);
\* pollTimerRef.current = setInterval(fetchAll, interval)
startPolling(h, interval) ==
  [h EXCEPT !.intervals =
              Append(IF h.pollTimerRef # 0
                     THEN clearInterval(@, h.pollTimerRef) ELSE @, interval),
            !.pollTimerRef = interval]

\* if (pollTimerRef.current) { clearInterval(...); pollTimerRef.current = null }
stopPolling(h) ==
  IF h.pollTimerRef # 0
  THEN [h EXCEPT !.intervals = clearInterval(@, h.pollTimerRef),
                 !.pollTimerRef = 0]
  ELSE h

\* if (sseRef.current) sseRef.current.close()
CloseStream(h) == IF h.sseRef # 0 THEN [h EXCEPT !.esClosed = TRUE] ELSE h

\* the EventSource of the hook is connecting or open
StreamActive(h) == h.sseRef # 0 /\ ~h.esClosed

\* the connection of a new EventSource: the first one that the server is not
\* serving and that is not the connection of the EventSource it replaces
Unused(c) == channels[c] = NoChannel /\ c # hook.sseRef
Fresh(c) == Unused(c) /\ \A d \in 1..(c - 1) : ~Unused(d)

\* connectSSE(): close the old EventSource, then create one (on connection c)
connectSSE(h, c) ==
  [CloseStream(h) EXCEPT !.connectionStatus = "connecting",
                         !.sseRef = c, !.esClosed = FALSE, !.seen = 0]

RemoveAt(list, i) ==
  SubSeq(list, 1, i - 1) \o SubSeq(list, i + 1, Len(list))

\* the effect of the hook: fetchAll(); connectSSE()
Mount ==
  /\ hook.phase = "new"
  /\ \E c \in Clients :
       /\ Fresh(c)
       /\ hook' = connectSSE(fetchAll([hook EXCEPT !.phase = "mounted"]), c)
  /\ ServerIdle /\ UNCHANGED net

\* the cleanup of the effect: close the stream and stop polling
Unmount ==
  /\ hook.phase = "mounted"
  /\ hook' = stopPolling(CloseStream([hook EXCEPT !.phase = "unmounted"]))
  /\ ServerIdle /\ UNCHANGED net

\* the stream handler of the server answers the EventSource of the hook
Accept(c) ==
  /\ StreamActive(hook) /\ hook.sseRef = c /\ net.streamUp
  /\ Connect(c)
  /\ channels'[c].open

\* the server learns that the peer of a connection has gone
Disconnect(c) ==
  /\ ~(StreamActive(hook) /\ hook.sseRef = c)
  /\ Close(c)

\* the next event of the stream, not yet dispatched to a listener
NextEvent == channels[hook.sseRef].sent[hook.seen + 1]

HasNextEvent ==
  /\ StreamActive(hook)
  /\ hook.seen < Len(channels[hook.sseRef].sent)

\* a variant of the connected listener that starts no poll timer
OnConnectedNoPolling ==
  /\ HasNextEvent /\ NextEvent.event = "connected"
  /\ hook' = fetchAll([hook EXCEPT !.seen = @ + 1, !.isSSEAlive = TRUE,
                                   !.connectionStatus = "live"])
  /\ ServerIdle /\ UNCHANGED net

\* es.addEventListener('connected', ...)
OnConnected ==
  /\ HasNextEvent /\ NextEvent.event = "connected"
  /\ hook' = fetchAll(startPolling(
               [hook EXCEPT !.seen = @ + 1, !.isSSEAlive = TRUE,
                            !.connectionStatus = "live"],
               POLL_INTERVAL_NORMAL))
  /\ ServerIdle /\ UNCHANGED net

\* JSON.parse(JSON.stringify(row)): a key whose value is undefined is left
\* out and NaN becomes null
WireRow(row) ==
  IF row = NoRecord THEN NoRecord
  ELSE [f \in {g \in DOMAIN row :
                 g \in {"start_time", "end_time"} => row[g] # JsUndefined} |->
          IF f \in {"start_time", "end_time"} /\ row[f] = NaN
          THEN Null ELSE row[f]]

\* the data of a booking_change event as the listener parses it
Wire(data) == [data EXCEPT !.new = WireRow(@), !.old = WireRow(@)]

\* the body of the booking_change listener on the state h
Dispatch(h, data) ==
  LET patched == applySSEEvent(LocalOf(h), data.eventType, data.new, data.old)
      next == [h EXCEPT !.bookings = patched.bookings,
                        !.schedule = patched.schedule]
  IN IF patched.fetchSchedule THEN fetchSchedule(next) ELSE next

\* es.addEventListener('booking_change', ...)
OnBookingChange ==
  /\ HasNextEvent /\ NextEvent.event = "booking_change"
  /\ hook' = Dispatch([hook EXCEPT !.seen = @ + 1], Wire(NextEvent.data))
  /\ ServerIdle /\ UNCHANGED net

\* a variant of es.onerror that schedules no reconnect
OnErrorNoRetry ==
  /\ StreamActive(hook) /\ ~net.streamUp
  /\ hook' = startPolling(
               [hook EXCEPT !.isSSEAlive = FALSE,
                            !.connectionStatus = "polling",
                            !.esClosed = TRUE],
               POLL_INTERVAL_FALLBACK)
  /\ ServerIdle /\ UNCHANGED net

\* es.onerror: the stream endpoint cannot be reached
OnError ==
  /\ StreamActive(hook) /\ ~net.streamUp
  /\ hook' = startPolling(
               [hook EXCEPT !.isSSEAlive = FALSE,
                            !.connectionStatus = "polling",
                            !.esClosed = TRUE,
                            !.timeouts = Append(@, Timeout("connectSSE",
                                                           ReconnectDelay))],
               POLL_INTERVAL_FALLBACK)
  /\ ServerIdle /\ UNCHANGED net

\* setTimeout(connectSSE, 5000) fires
ReconnectFires ==
  /\ \E i \in 1..Len(hook.timeouts), c \in Clients :
       /\ hook.timeouts[i].callback = "connectSSE"
       /\ Fresh(c)
       /\ hook' = connectSSE([hook EXCEPT !.timeouts = RemoveAt(@, i)], c)
  /\ ServerIdle /\ UNCHANGED net

\* triggerRefresh(), called by the component that uses the hook
triggerRefresh ==
  /\ hook.phase = "mounted"
  /\ Len(SelectSeq(hook.timeouts, LAMBDA t : t.callback = "fetchAll"))
       < MaxTimeouts
  /\ hook' = [hook EXCEPT
                !.timeouts = Append(@, Timeout("fetchAll", RefreshDelay))]
  /\ ServerIdle /\ UNCHANGED net

\* setTimeout(fetchAll, 300) fires
RefreshFires ==
  /\ \E i \in 1..Len(hook.timeouts) :
       /\ hook.timeouts[i].callback = "fetchAll"
       /\ hook' = fetchAll([hook EXCEPT !.timeouts = RemoveAt(@, i)])
  /\ ServerIdle /\ UNCHANGED net

\* a timer of setInterval(fetchAll, interval) fires
PollFires ==
  /\ hook.intervals # <<>>
  /\ hook' = fetchAll(hook)
  /\ ServerIdle /\ UNCHANGED net

\* the answered requests of a kind are at the bound
Backlog(inflight) == Cardinality(inflight \ {Sent}) >= MaxFetches

\* GET /api/bookings handles a request of the hook, or the request fails
ServeBookings ==
  /\ Sent \in hook.fetches.bookings /\ ~Backlog(hook.fetches.bookings)
  /\ \E storeError \in BOOLEAN :
       hook' = [hook EXCEPT !.fetches.bookings = (@ \ {Sent}) \cup
                  {IF net.apiUp /\ ~storeError
                   THEN Fetch("ok", BookingsBody(bookings)) ELSE Failed}]
  /\ ServerIdle /\ UNCHANGED net

\* GET /api/schedule handles a request of the hook, or the request fails
ServeSchedule ==
  /\ Sent \in hook.fetches.schedule /\ ~Backlog(hook.fetches.schedule)
  /\ \E storeError \in BOOLEAN :
       hook' = [hook EXCEPT !.fetches.schedule = (@ \ {Sent}) \cup
                  {IF net.apiUp /\ ~storeError
                   THEN Fetch("ok", ScheduleBody(bookings)) ELSE Failed}]
  /\ ServerIdle /\ UNCHANGED net

\* a variant of fetchBookings() whose catch block empties the list
BookingsArriveClearing ==
  /\ \E f \in hook.fetches.bookings \ {Sent} :
       hook' = [hook EXCEPT !.fetches.bookings = @ \ {f},
                            !.bookings = IF f.state = "ok" THEN f.data
                                         ELSE <<>>]
  /\ ServerIdle /\ UNCHANGED net

\* fetchBookings() after its await: setBookings(data), or the catch block
BookingsArrive ==
  /\ \E f \in hook.fetches.bookings \ {Sent} :
       hook' = [hook EXCEPT !.fetches.bookings = @ \ {f},
                            !.bookings = IF f.state = "ok" THEN f.data ELSE @]
  /\ ServerIdle /\ UNCHANGED net

\* fetchSchedule() after its await: setSchedule(data), or the catch block
ScheduleArrives ==
  /\ \E f \in hook.fetches.schedule \ {Sent} :
       hook' = [hook EXCEPT !.fetches.schedule = @ \ {f},
                            !.schedule = IF f.state = "ok" THEN f.data ELSE @]
  /\ ServerIdle /\ UNCHANGED net

\* the stream endpoint or the fetch endpoints become (un)reachable
NetChange ==
  /\ \E streamUp \in BOOLEAN, apiUp \in BOOLEAN :
       /\ net' = Network(streamUp, apiUp)
       /\ net' # net
  /\ ServerIdle /\ UNCHANGED hook

----------------------------------------------------------------------------
(* Direct calls of applySSEEvent                                           *)

\* the records of the INSERT events applied: the rows a table may hold, and
\* a record that repeats the id of one of them with other contents
ReducerRows ==
  {Row(1, "CSIS-101", Today, T0900, T1100, "Approved", "teacher"),
   Row(2, "CSIS-101", Today, T0900, T1100, "Rejected", "student"),
   Row(3, "CSIS-101", Today, T1100, T1300, "Pending", "student"),
   Row(6, "CSIS-101", Tomorrow, T0900, T1100, "Pending", "student"),
   Row(1, "CSIS-102", Tomorrow, T1100, T1300, "Pending", "student")}

\* a mounted hook whose state is what a full fetch of the table store gave
\* it, or the initial state
FetchedHooks ==
  {[NoHook EXCEPT !.phase = "mounted",
                  !.bookings = BookingsBody(store),
                  !.schedule = ScheduleBody(store)] :
     store \in {st \in ProbeStores : Len(st) <= 1}}

\* a call of applySSEEvent
Applied(eventType, record, changed) ==
  [NoProbe EXCEPT !.fn = "applySSEEvent",
                  !.args = <<eventType, BookingId(record)>>,
                  !.result = changed]

\* applySSEEvent('INSERT', row, undefined)
ApplyInsert(Rows) ==
  /\ \E row \in Rows :
       /\ hook' = Dispatch(hook, Wire(InsertData(row)))
       /\ probe' = Applied("INSERT", row, hook' # hook)
  /\ UNCHANGED <<bookings, sseClients, channels, req, net>>
  /\ cast' = NoCast /\ admin' = NoAdmin

InitReducer ==
  /\ bookings = <<>>
  /\ sseClients = {}
  /\ channels = [c \in Clients |-> NoChannel]
  /\ cast = NoCast
  /\ req = OneRequest
  /\ probe = NoProbe
  /\ admin = NoAdmin
  /\ hook \in FetchedHooks
  /\ net = Online

ReducerNext == ApplyInsert(ReducerRows)

SpecReducer == InitReducer /\ [][ReducerNext]_vars

\* applying the INSERT of row to the state of the hook
AfterInsert(h, row) == Dispatch(h, Wire(InsertData(row)))

\* the ids of the entries of a list, with undefined (0) for an entry without
IdsOf(list) == [i \in 1..Len(list) |-> BookingId(list[i])]

\* no two entries of the list have the same booking_id
NoDuplicateIds(list) ==
  \A i, j \in 1..Len(list) : IdsOf(list)[i] = IdsOf(list)[j] => i = j

\* C25: applying the same INSERT change event twice to the client reducer
\* yields the same booking collection and schedule grouping as applying it
\* once; after any sequence of INSERT events the local booking collection
\* holds no two entries with the same booking_id.
C25_InsertIdempotent ==
  /\ \A row \in ReducerRows :
       AfterInsert(AfterInsert(hook, row), row) = AfterInsert(hook, row)
  /\ NoDuplicateIds(hook.bookings)
  /\ (probe.fn = "applySSEEvent" /\ ~probe.result) =>
       SomeHasId(hook.bookings, probe.args[2])

\* an INSERT was applied to a state that held its booking, after another
\* INSERT had added a second booking to the list and to a date bucket
C25_Witness ==
  /\ probe.fn = "applySSEEvent" /\ ~probe.result
  /\ Len(hook.bookings) >= 2
  /\ \E d \in DOMAIN hook.schedule :
       /\ Len(hook.schedule[d]) >= 2
       /\ SomeHasId(hook.schedule[d], probe.args[2])

----------------------------------------------------------------------------
(* The server and one hook connected to it                                 *)

\* what the chat requests propose while a hook is watching
SyncBookings == {Proposal("CSIS-101", Today, T0900, T1100, "")}

SyncCancellations == {Cancellation("CSIS-101", Today)}

\* the admin's approve and reject of the one request of StreamTable, and a
\* hook that mounts, connects, fetches and receives the events
ReviewNext ==
  \/ \E bookingId \in Ids : Approve(bookingId)
  \/ \E bookingId \in Ids : Reject(bookingId)
  \/ Mount
  \/ \E c \in Clients : Accept(c)
  \/ OnConnected
  \/ OnBookingChange
  \/ ServeBookings
  \/ ServeSchedule
  \/ BookingsArrive
  \/ ScheduleArrives

SpecReview == InitStream /\ [][ReviewNext]_vars

\* /api/chat requests that book and cancel, and a hook that mounts,
\* connects, receives the events and fetches the schedule
SyncNext ==
  \/ \E r \in DOMAIN req : ChatExtract(r, SeqsUpTo(SyncBookings, 1))
  \/ \E r \in DOMAIN req : PreCheck(r)
  \/ \E r \in DOMAIN req :
       AIRespond(r, Replies(SeqsUpTo(SyncBookings, 1),
                            SeqsUpTo(SyncCancellations, 1), StrayBookings))
  \/ \E r \in DOMAIN req : FinalCheck(r)
  \/ \E r \in DOMAIN req : Insert(r)
  \/ \E r \in DOMAIN req : Cancel(r)
  \/ \E r \in DOMAIN req : Return(r)
  \/ Mount
  \/ \E c \in Clients : Accept(c)
  \/ OnConnected
  \/ OnBookingChange
  \/ ServeSchedule
  \/ ScheduleArrives

SpecSync == Init /\ [][SyncNext]_vars

\* the step dispatches a booking_change event of the given type
Dispatches(eventType) ==
  /\ HasNextEvent
  /\ NextEvent.event = "booking_change"
  /\ NextEvent.data.eventType = eventType
  /\ hook'.seen = hook.seen + 1
  /\ hook'.sseRef = hook.sseRef

\* the entries of the list with the given booking_id
WithId(list, id) == SelectSeq(list, LAMBDA b : BookingId(b) = id)

\* C24: after an admin approve or reject succeeds and its UPDATE event is
\* delivered to a live client, applying that event sets the status of the
\* client's local booking with that id to the new status and triggers the
\* schedule re-fetch: the payload the server broadcasts is sufficient for
\* the reducer to patch local state.
C24_UpdateIsApplied ==
  [][Dispatches("UPDATE") =>
       /\ \A i \in 1..Len(hook'.bookings) :
            BookingId(hook'.bookings[i]) = NextEvent.data.bookingId =>
              Status(hook'.bookings[i]) = NextEvent.data.newStatus
       /\ Len(WithId(hook'.bookings, NextEvent.data.bookingId))
            = Len(WithId(hook.bookings, NextEvent.data.bookingId))
       /\ Sent \in hook'.fetches.schedule]_vars

\* the schedule entry e shows the booking bk
Shows(e, bk) ==
  /\ e.room_number = bk.room_number
  /\ e.start_date = bk.start_date
  /\ e.start_time = bk.start_time
  /\ e.end_time = bk.end_time

\* the places of the schedule grouping that show the booking bk
EntriesOf(schedule, bk) ==
  {p \in UNION {{<<d, i>> : i \in 1..Len(schedule[d])} :
                  d \in DOMAIN schedule} :
     Shows(schedule[p[1]][p[2]], bk)}

\* every row of the table has at most one entry in the schedule grouping
C26_OneEntryEach ==
  \A k \in 1..Len(bookings) :
    Cardinality(EntriesOf(hook.schedule, bookings[k])) <= 1

\* an INSERT event for a booking that the grouping shows adds no entry
C26_InsertAddsNoSecond ==
  (Dispatches("INSERT")
     /\ EntriesOf(hook.schedule, NextEvent.data.new) # {}) =>
    hook'.schedule = hook.schedule

\* C26: in every reachable client state, under any interleaving of INSERT
\* events and full-fetch responses, the schedule grouping holds at most one
\* entry per booking: an INSERT event for a booking that an earlier schedule
\* fetch already delivered does not add a second entry for it to the date
\* bucket.
C26_ScheduleHasNoDuplicates ==
  [](C26_OneEntryEach) /\ [][C26_InsertAddsNoSecond]_vars

\* the schedule grouping maps no date to an empty list
C27_NoEmptyBucket ==
  \A d \in DOMAIN hook.schedule : hook.schedule[d] # <<>>

\* a DELETE event leaves no entry of its booking in the list or the grouping
C27_DeleteRemoves ==
  Dispatches("DELETE") =>
    /\ ~SomeHasId(hook'.bookings, BookingId(NextEvent.data.old))
    /\ EntriesOf(hook'.schedule, NextEvent.data.old) = {}

\* C27: applying a DELETE event removes the booking with that id from the
\* local booking collection and from its date bucket in the schedule
\* grouping, whether the bucket's entries came from INSERT events or from a
\* schedule fetch, and deletes the date key when the bucket becomes empty, so
\* the schedule never maps a date to an empty list.
C27_DeleteIsApplied ==
  [](C27_NoEmptyBucket) /\ [][C27_DeleteRemoves]_vars

----------------------------------------------------------------------------
(* The life of one hook: mount, stream errors, reconnects, polls, unmount  *)

HookNext ==
  \/ Mount
  \/ Unmount
  \/ \E c \in Clients : Accept(c)
  \/ \E c \in Clients : Disconnect(c)
  \/ OnConnected
  \/ OnError
  \/ ReconnectFires
  \/ triggerRefresh
  \/ RefreshFires
  \/ PollFires
  \/ ServeBookings
  \/ ServeSchedule
  \/ BookingsArrive
  \/ ScheduleArrives
  \/ NetChange

SpecHook == InitStream /\ [][HookNext]_vars

\* what the runtime guarantees: the server handles a connection request and
\* learns of a closed connection, a written event is dispatched, a stream
\* that cannot be reached raises its error, a timer that is due fires, and
\* a request is answered and its answer handled
HookFairness ==
  /\ WF_vars(\E c \in Clients : Accept(c))
  /\ WF_vars(\E c \in Clients : Disconnect(c))
  /\ WF_vars(OnConnected)
  /\ WF_vars(OnError)
  /\ WF_vars(ReconnectFires)
  /\ WF_vars(RefreshFires)
  /\ WF_vars(PollFires)
  /\ WF_vars(ServeBookings)
  /\ WF_vars(ServeSchedule)
  /\ WF_vars(BookingsArrive)
  /\ WF_vars(ScheduleArrives)

SpecHookFair == SpecHook /\ HookFairness

\* the stream of one hook alone: it mounts, its connection is accepted or
\* fails, it reconnects, it unmounts
ReconnectNext ==
  \/ Mount
  \/ Unmount
  \/ \E c \in Clients : Accept(c)
  \/ \E c \in Clients : Disconnect(c)
  \/ OnConnected
  \/ OnError
  \/ ReconnectFires
  \/ NetChange

\* the server handles a connection request and learns of a closed
\* connection, a written event is dispatched, a stream that cannot be
\* reached raises its error, and a timer that is due fires
ReconnectFairness ==
  /\ WF_vars(\E c \in Clients : Accept(c))
  /\ WF_vars(\E c \in Clients : Disconnect(c))
  /\ WF_vars(OnConnected)
  /\ WF_vars(OnError)
  /\ WF_vars(ReconnectFires)

SpecReconnect ==
  InitStream /\ [][ReconnectNext]_vars /\ ReconnectFairness

\* the step closes the stream of the hook on an error: the EventSource is
\* closed while the hook stays mounted and no other one replaces it
StreamErrorStep ==
  /\ StreamActive(hook) /\ ~StreamActive(hook')
  /\ hook'.sseRef = hook.sseRef
  /\ hook'.phase = hook.phase

\* the timeouts pending for connectSSE
Reconnects(h) == SelectSeq(h.timeouts, LAMBDA t : t.callback = "connectSSE")

\* every stream error schedules one reconnect after the fixed delay
C29_ErrorSchedulesReconnect ==
  StreamErrorStep =>
    /\ hook'.timeouts = Append(hook.timeouts,
                               Timeout("connectSSE", ReconnectDelay))
    /\ hook'.connectionStatus = "polling"

\* a mounted hook without a stream that is connecting or open has a
\* reconnect pending
C29_RetryPending ==
  (hook.phase = "mounted" /\ ~StreamActive(hook)) =>
    Len(Reconnects(hook)) = 1

\* C29: after every stream error the client schedules a reconnect attempt
\* after the fixed backoff, and it does so again after every failed attempt
\* with no retry limit; if the stream endpoint eventually stays reachable, a
\* mounted client eventually reaches connectionStatus live.
C29_ReconnectsUntilLive ==
  /\ [][C29_ErrorSchedulesReconnect]_vars
  /\ [](C29_RetryPending)
  /\ (<>[](net.streamUp /\ hook.phase = "mounted")
        => <>[](hook.connectionStatus = "live"))

\* the hook is live again on a second stream, after an error closed its
\* first one and the reconnect timer fired
C29_Witness ==
  /\ hook.phase = "mounted"
  /\ hook.connectionStatus = "live"
  /\ hook.sseRef = 2
  /\ hook.timeouts = <<>>
  /\ net.streamUp

\* after the cleanup the stream is closed and no timer is pending
C28_NothingPending ==
  hook.phase = "unmounted" =>
    /\ ~StreamActive(hook)
    /\ hook.pollTimerRef = 0
    /\ hook.timeouts = <<>>

\* after the cleanup no callback runs: no stream is created, no timer is
\* set and no request is sent
C28_NothingCreated ==
  hook.phase = "unmounted" =>
    /\ hook'.sseRef = hook.sseRef /\ hook'.esClosed = hook.esClosed
    /\ hook'.pollTimerRef = hook.pollTimerRef
    /\ hook'.timeouts = hook.timeouts
    /\ Sent \in hook'.fetches.bookings => Sent \in hook.fetches.bookings
    /\ Sent \in hook'.fetches.schedule => Sent \in hook.fetches.schedule

\* C28: after the reducer is torn down (hook unmounted) in any state, the
\* stream connection is closed and no timer remains pending: no poll,
\* reconnect or delayed-refresh callback fires afterwards, and no new stream
\* connection or poll timer is ever created after teardown.
C28_TeardownIsComplete ==
  [](C28_NothingPending) /\ [][C28_NothingCreated]_vars

\* the hook never shows error
C30_NeverError == hook.connectionStatus # "error"

\* C30: when both the stream and the polling fetches keep failing,
\* connectionStatus eventually becomes error (the OFFLINE indicator); a
\* stream disconnection alone never produces error.
C30_TotalFailureShowsError ==
  /\ (<>[](~net.streamUp /\ ~net.apiUp /\ hook.phase = "mounted")
        => <>(hook.connectionStatus = "error"))
  /\ [](net.apiUp => C30_NeverError)

----------------------------------------------------------------------------
(* connectionStatus as a state machine                                     *)

\* the step is the listener of the stream's connected event
ConnectedStep ==
  /\ HasNextEvent /\ NextEvent.event = "connected"
  /\ hook'.seen = hook.seen + 1 /\ hook'.sseRef = hook.sseRef

\* the connected signal leads to live and a stream error to polling
C31_SignalsSetStatus ==
  /\ ConnectedStep => hook'.connectionStatus = "live"
  /\ StreamErrorStep => hook'.connectionStatus = "polling"

\* polling is left only for live, and only by the connected signal
C31_PollingLeavesToLive ==
  (hook.connectionStatus = "polling" /\ hook'.connectionStatus # "polling")
    => (hook'.connectionStatus = "live" /\ ConnectedStep)

\* while the stream endpoint stays unreachable, polling stays polling
C31_StaysPollingWhileDown ==
  (hook.connectionStatus = "polling" /\ ~net.streamUp /\ ~net'.streamUp)
    => hook'.connectionStatus = "polling"

\* C31: connectionStatus follows the stated state machine: it goes
\* connecting->live on the stream connected signal and live->polling on a
\* stream error, and it leaves polling only by moving to live when a
\* reconnect succeeds; while the stream is down and reconnects are being
\* attempted the status stays polling.
C31_StatusMachine ==
  [][/\ C31_SignalsSetStatus
     /\ C31_PollingLeavesToLive
     /\ C31_StaysPollingWhileDown]_vars

----------------------------------------------------------------------------
(* toMinutes on malformed input                                            *)

\* C32: toMinutes returns null, and never throws, for every input that is
\* not a well-formed HH:MM time (empty or missing value, text without a
\* colon, non-numeric parts), and returns 60*HH+MM for every well-formed
\* one.
C32_NullForMalformed ==
  probe.fn = "toMinutes" =>
    /\ ~probe.threw
    /\ probe.value = IF WellFormedTime(probe.args[1])
                     THEN Num(HHMM(probe.args[1]))
                     ELSE Null

----------------------------------------------------------------------------
(* Two /api/chat requests interleaved at their awaits                      *)

\* two handlers of /api/chat may be running
TwoRequests == [r \in 1..2 |-> IdleReq]

\* two slots of one room and day that overlap
RaceBookings ==
  {Proposal("CSIS-101", Today, T0900, T1100, ""),
   Proposal("CSIS-101", Today, T1000, T1200, "")}

InitRace ==
  /\ bookings = <<>>
  /\ sseClients = {}
  /\ channels = [c \in Clients |-> NoChannel]
  /\ cast = NoCast
  /\ req = TwoRequests
  /\ probe = NoProbe
  /\ admin = NoAdmin
  /\ hook = NoHook
  /\ net = Online

\* each request proposes one of the two slots
RaceBatches == {<<bk>> : bk \in RaceBookings}

\* every await of a handler is a point where the other handler may run;
\* the requests book and do not cancel
RaceNext ==
  \/ \E r \in DOMAIN req : ChatExtract(r, RaceBatches)
  \/ \E r \in DOMAIN req : PreCheck(r)
  \/ \E r \in DOMAIN req :
       AIRespond(r, Replies(RaceBatches, {<<>>}, <<>>))
  \/ \E r \in DOMAIN req : FinalCheck(r)
  \/ \E r \in DOMAIN req : Insert(r)
  \/ \E r \in DOMAIN req : Return(r)

SpecRace == InitRace /\ [][RaceNext]_vars

\* the rows of the table that are active and overlap the proposal bk
ActiveOverlapping(store, bk) ==
  {k \in 1..Len(store) :
     Active(store[k]) /\ MutuallyOverlapping(store[k], bk)}

\* the final check lets an entry through to its insert only if no active
\* row that the table holds at that moment overlaps it
C33_RecheckSeesWrittenRows ==
  \A r \in DOMAIN req :
    (req[r].pc = "write" /\ req'[r].pc = "insert") =>
      ActiveOverlapping(bookings, Entry(r, req[r].wi)) = {}

\* an insert that leaves two overlapping active rows is the insert of a
\* request whose final check passed before the other row was written: the
\* check, run now, would reject the entry
C33_OverlapOnlyByRace ==
  \A r \in DOMAIN req :
    (/\ req[r].pc = "insert" /\ Len(bookings') > Len(bookings)
     /\ req'[r].outcome # req[r].outcome
     /\ ActiveOverlapping(bookings, bookings'[Len(bookings')]) # {}) =>
      /\ req[r].lastCheck.result.valid
      /\ ~checkBookingConflict(bookings, Entry(r, req[r].wi), FALSE).valid

\* C33: two /api/chat requests proposing overlapping slots for the same
\* room and date, interleaved at their await points, can both pass the
\* final pre-insert validation before either insert and both be written,
\* leaving two overlapping active bookings: the pre-insert re-check narrows
\* but does not exclude this execution.
C33_RecheckNarrowsRace ==
  [][C33_RecheckSeesWrittenRows /\ C33_OverlapOnlyByRace]_vars

\* both requests passed their final check before either insert, both
\* inserted, and the table holds their two overlapping active bookings
C33_Witness ==
  /\ \A r \in DOMAIN req :
       /\ req[r].outcome = <<"inserted">>
       /\ req[r].lastCheck.result.valid
  /\ Len(bookings) = 2
  /\ Active(bookings[1]) /\ Active(bookings[2])
  /\ MutuallyOverlapping(bookings[1], bookings[2])

----------------------------------------------------------------------------
(* Direct calls of applySSEEvent with events of every type                 *)

\* the records of the UPDATE events applied: a few changed fields of a
\* booking, a whole row, and a record whose id no table row has
UpdateRecords ==
  {[booking_id |-> 1, status |-> "Rejected"],
   Row(6, "CSIS-101", Tomorrow, T0900, T1100, "Approved", "student"),
   [booking_id |-> 7, status |-> "Approved"]}

\* the records of the INSERT and DELETE events applied
EventRows ==
  {Row(1, "CSIS-101", Today, T0900, T1100, "Approved", "teacher"),
   Row(3, "CSIS-101", Today, T1100, T1300, "Pending", "student"),
   Row(6, "CSIS-101", Tomorrow, T0900, T1100, "Rejected", "student")}

\* a call of applySSEEvent and the record it was given
AppliedRecord(eventType, record, changed) ==
  [Applied(eventType, record, changed) EXCEPT !.value = record]

\* applySSEEvent(eventType, newRecord, oldRecord) with the given data
ApplyEvent(eventType, record, data) ==
  /\ hook' = Dispatch(hook, Wire(data))
  /\ probe' = AppliedRecord(eventType, record, hook' # hook)
  /\ UNCHANGED <<bookings, sseClients, channels, req, net>>
  /\ cast' = NoCast /\ admin' = NoAdmin

\* applySSEEvent('INSERT', row, undefined)
ApplyInsertOf(Rows) ==
  \E row \in Rows : ApplyEvent("INSERT", row, InsertData(row))

\* applySSEEvent('UPDATE', record, undefined)
ApplyUpdate(Records) ==
  \E record \in Records :
    ApplyEvent("UPDATE", record,
               EventData("UPDATE", 0, "", record, NoRecord))

\* applySSEEvent('DELETE', undefined, row)
ApplyDelete(Rows) ==
  \E row \in Rows : ApplyEvent("DELETE", row, DeleteData(<<row>>))

\* a table of at most one row, and a mounted hook that has fetched it
InitEvents ==
  /\ bookings \in {<<>>} \cup {<<row>> : row \in EventRows}
  /\ sseClients = {}
  /\ channels = [c \in Clients |-> NoChannel]
  /\ cast = NoCast
  /\ req = OneRequest
  /\ probe = NoProbe
  /\ admin = NoAdmin
  /\ hook = [NoHook EXCEPT !.phase = "mounted",
                           !.bookings = BookingsBody(bookings),
                           !.schedule = ScheduleBody(bookings)]
  /\ net = Online

\* events of every type are applied, and the schedule fetches that they ask
\* for are answered
EventsNext ==
  \/ ApplyInsertOf(EventRows)
  \/ ApplyUpdate(UpdateRecords)
  \/ ApplyDelete(EventRows)
  \/ ServeSchedule
  \/ ScheduleArrives

SpecEvents == InitEvents /\ [][EventsNext]_vars

\* the step applies an event of the given type: it is a call of
\* applySSEEvent, which takes no request of the hook away
Applies(eventType) ==
  /\ probe'.fn = "applySSEEvent" /\ probe'.args[1] = eventType
  /\ hook.fetches.schedule \subseteq hook'.fetches.schedule

\* the entry after is the entry before with the fields of record over it
Merged(before, record, after) ==
  /\ DOMAIN after = DOMAIN before \cup DOMAIN record
  /\ \A f \in DOMAIN record : after[f] = record[f]
  /\ \A f \in DOMAIN before \ DOMAIN record : after[f] = before[f]

\* C34: applying an UPDATE event that carries a record with a booking_id
\* changes only the local booking with that id (merging the received fields
\* into it), leaves every other local booking unchanged, never adds or
\* removes a booking, and triggers a re-fetch of the schedule grouping
\* instead of patching it.
C34_UpdateMergesOne ==
  [][Applies("UPDATE") =>
       /\ Len(hook'.bookings) = Len(hook.bookings)
       /\ IdsOf(hook'.bookings) = IdsOf(hook.bookings)
       /\ \A i \in 1..Len(hook.bookings) :
            IF BookingId(hook.bookings[i]) = BookingId(probe'.value)
            THEN Merged(hook.bookings[i], probe'.value, hook'.bookings[i])
            ELSE hook'.bookings[i] = hook.bookings[i]
       /\ hook'.schedule = hook.schedule
       /\ Sent \in hook'.fetches.schedule]_vars

\* an UPDATE with two fields was applied to a list of several bookings: the
\* booking with its id has the new status and kept its other fields, and
\* the schedule is being fetched
C34_Witness ==
  /\ probe.fn = "applySSEEvent" /\ probe.args[1] = "UPDATE"
  /\ DOMAIN probe.value = {"booking_id", "status"}
  /\ Len(hook.bookings) >= 2
  /\ \E i \in 1..Len(hook.bookings) :
       /\ BookingId(hook.bookings[i]) = BookingId(probe.value)
       /\ Status(hook.bookings[i]) = Status(probe.value)
       /\ "room_number" \in DOMAIN hook.bookings[i]
  /\ Sent \in hook.fetches.schedule

\* an INSERT of a Rejected record leaves the schedule grouping as it is and
\* puts the record at the head of the list, unless the list has its id
C35_RejectedInsertSkipsSchedule ==
  (Applies("INSERT") /\ Status(probe'.value) = "Rejected") =>
    /\ hook'.schedule = hook.schedule
    /\ hook'.bookings =
         IF SomeHasId(hook.bookings, BookingId(probe'.value))
         THEN hook.bookings
         ELSE <<probe'.value>> \o hook.bookings

\* no entry of the schedule grouping has status Rejected
C35_NoRejectedShown ==
  \A d \in DOMAIN hook.schedule :
    \A i \in 1..Len(hook.schedule[d]) :
      Status(hook.schedule[d][i]) # "Rejected"

\* C35: an INSERT event whose record has status Rejected never adds an
\* entry to the schedule grouping and creates no date bucket (it is still
\* appended to the local booking collection); no event application ever
\* puts a booking with status Rejected into the schedule grouping.
C35_RejectedStaysOutOfSchedule ==
  [](C35_NoRejectedShown) /\ [][C35_RejectedInsertSkipsSchedule]_vars

\* the INSERT of a Rejected record was applied: the record is in the list,
\* the grouping has other entries and no bucket for the date of the record
C35_Witness ==
  /\ probe.fn = "applySSEEvent" /\ probe.args[1] = "INSERT"
  /\ Status(probe.value) = "Rejected"
  /\ hook.bookings # <<>> /\ Head(hook.bookings) = probe.value
  /\ DOMAIN hook.schedule # {}
  /\ StartDate(probe.value) \notin DOMAIN hook.schedule

----------------------------------------------------------------------------
(* The poll timer                                                          *)

\* one hook, its stream, its poll timer and the fetches of the timer
PollNext ==
  \/ Mount
  \/ Unmount
  \/ \E c \in Clients : Accept(c)
  \/ \E c \in Clients : Disconnect(c)
  \/ OnConnected
  \/ OnError
  \/ ReconnectFires
  \/ PollFires
  \/ ServeBookings
  \/ ServeSchedule
  \/ BookingsArrive
  \/ ScheduleArrives
  \/ NetChange

SpecPoll == InitStream /\ [][PollNext]_vars

\* C36: while the reducer is mounted, at most one polling timer is active
\* at any time, and its period is the slow cadence (30s) whenever
\* connectionStatus is live and the fast cadence (5s) whenever
\* connectionStatus is polling.
C36_OnePollTimer ==
  hook.phase = "mounted" =>
    /\ Len(hook.intervals) <= 1
    /\ hook.connectionStatus = "live" =>
         hook.intervals = <<POLL_INTERVAL_NORMAL>>
    /\ hook.connectionStatus = "polling" =>
         hook.intervals = <<POLL_INTERVAL_FALLBACK>>

\* the hook is live on its second stream with the slow timer alone: the
\* fast timer of the outage in between was cleared
C36_Witness ==
  /\ hook.phase = "mounted"
  /\ hook.connectionStatus = "live"
  /\ hook.sseRef = 2
  /\ hook.pollTimerRef = POLL_INTERVAL_NORMAL
  /\ hook.intervals = <<POLL_INTERVAL_NORMAL>>

----------------------------------------------------------------------------
(* Failed fetches                                                          *)

\* the step is the catch block of fetchBookings or of fetchSchedule: a
\* failed request leaves the requests in flight
FailedFetchStep ==
  \/ /\ hook.fetches.bookings \ hook'.fetches.bookings = {Failed}
     /\ hook'.fetches.bookings \subseteq hook.fetches.bookings
     /\ hook'.fetches.schedule = hook.fetches.schedule
  \/ /\ hook.fetches.schedule \ hook'.fetches.schedule = {Failed}
     /\ hook'.fetches.schedule \subseteq hook.fetches.schedule
     /\ hook'.fetches.bookings = hook.fetches.bookings

\* C37: a failed bookings or schedule fetch (network error or non-OK
\* response) leaves connectionStatus, the local booking collection and the
\* schedule grouping unchanged, in every state of the reducer.
C37_FailedFetchChangesNothing ==
  [][FailedFetchStep =>
       /\ hook'.connectionStatus = hook.connectionStatus
       /\ hook'.bookings = hook.bookings
       /\ hook'.schedule = hook.schedule]_vars

\* a live hook has handled the answers to all its requests and still has
\* the empty list and grouping it started with, while the table has held a
\* row all along: the answers were failures
C37_Witness ==
  /\ hook.phase = "mounted"
  /\ hook.connectionStatus = "live"
  /\ hook.fetches.bookings = {} /\ hook.fetches.schedule = {}
  /\ hook.bookings = <<>> /\ DOMAIN hook.schedule = {}
  /\ BookingsBody(bookings) # <<>> /\ DOMAIN ScheduleBody(bookings) # {}

----------------------------------------------------------------------------
(* What approve and reject write                                           *)

\* the fields of a booking other than its status
SameButStatus(a, b) ==
  /\ a.booking_id = b.booking_id
  /\ a.room_number = b.room_number
  /\ a.start_date = b.start_date
  /\ a.start_time = b.start_time
  /\ a.end_time = b.end_time
  /\ a.owner_role = b.owner_role

\* an approve or reject that succeeds sets the status of the rows with its
\* id and leaves their other fields and the other rows as they are
C38_DecisionWritesStatusOnly ==
  admin'.status = 200 =>
    /\ Len(bookings') = Len(bookings)
    /\ \A k \in 1..Len(bookings) :
         IF bookings[k].booking_id = admin'.bookingId
         THEN /\ SameButStatus(bookings'[k], bookings[k])
              /\ bookings'[k].status = admin'.newStatus
         ELSE bookings'[k] = bookings[k]

\* an approve or reject that fails leaves the table as it is
C38_FailedDecisionWritesNothing ==
  admin'.status \in {404, 500} => bookings' = bookings

\* no step changes the room, the date, the times or the owner of a row that
\* the table keeps
C38_NoUpdateInPlace ==
  \A k \in 1..Len(bookings) : \A j \in 1..Len(bookings') :
    bookings'[j].booking_id = bookings[k].booking_id =>
      SameButStatus(bookings'[j], bookings[k])

\* C38: approve and reject change only the status field of the identified
\* booking: its id, room, date, start and end time and owner role, and
\* every other booking, are unchanged; no server operation updates a
\* booking's time, room or date in place.
C38_OnlyStatusChanges ==
  [][/\ C38_DecisionWritesStatusOnly
     /\ C38_FailedDecisionWritesNothing
     /\ C38_NoUpdateInPlace]_vars

\* the admin approved one of two bookings: it is Approved, and the other
\* one still has the other status it had
C38_Witness ==
  /\ admin.status = 200 /\ admin.newStatus = "Approved"
  /\ Len(bookings) = 2
  /\ \E k \in 1..2 :
       /\ bookings[k].booking_id = admin.bookingId
       /\ bookings[k].status = "Approved"
       /\ bookings[3 - k].status # "Approved"

----------------------------------------------------------------------------
(* Polling as the backstop of the stream                                   *)

\* the admin approves the one request of StreamTable, also again, while a
\* hook mounts, loses and regains its stream, receives the events and
\* polls; the requests of the hook fail through store errors
ConvergeNext ==
  \/ \E bookingId \in Ids : Approve(bookingId)
  \/ Mount
  \/ \E c \in Clients : Accept(c)
  \/ \E c \in Clients : Disconnect(c)
  \/ OnConnected
  \/ OnBookingChange
  \/ OnError
  \/ ReconnectFires
  \/ PollFires
  \/ ServeBookings
  \/ BookingsArrive
  \/ NetChange /\ net'.apiUp

\* a connection attempt of an EventSource ends, with an open stream or with
\* an error; the server learns of a closed connection; an event written to
\* an open stream is dispatched; a timer that is due fires; a request is
\* answered and its answer handled
ConvergeFairness ==
  /\ WF_vars((\E c \in Clients : Accept(c)) \/ OnError)
  /\ WF_vars(\E c \in Clients : Disconnect(c))
  /\ WF_vars(OnConnected)
  /\ WF_vars(OnBookingChange)
  /\ WF_vars(ReconnectFires)
  /\ WF_vars(PollFires)
  /\ WF_vars(ServeBookings)
  /\ WF_vars(BookingsArrive)

SpecConverge == InitStream /\ [][ConvergeNext]_vars /\ ConvergeFairness

\* a mounted hook without a poll timer is still waiting for the outcome of
\* its first connection attempt
C39_PollTimerRuns ==
  (hook.phase = "mounted" /\ hook.intervals = <<>>) =>
    /\ hook.connectionStatus = "connecting"
    /\ ~hook.isSSEAlive
    /\ Reconnects(hook) = <<>>
    /\ hook.seen = 0

\* the statuses the one row of the table may have
Statuses == {"Pending", "Approved"}

\* from some point on the table is the given one, the hook is mounted and
\* no request for the bookings fails
Settled(status) ==
  /\ bookings = <<[StreamTable[1] EXCEPT !.status = status]>>
  /\ hook.phase = "mounted"
  /\ Failed \notin hook.fetches.bookings

\* C39: if writes to the store stop and fetches eventually succeed, a
\* mounted client's local booking collection eventually equals the server's
\* booking list and stays equal from then on, even if change events were
\* lost, duplicated or ignored and whatever order in-flight fetch responses
\* and events arrived in: a poll timer is always running once the stream
\* has either connected or failed.
C39_PollingConverges ==
  /\ [](C39_PollTimerRuns)
  /\ \A status \in Statuses :
       <>[](Settled(status)) => <>[](hook.bookings = BookingsBody(bookings))

\* the list of the hook shows the decision of the admin, whose UPDATE
\* event the hook has dispatched without applying it: a fetch brought it.
\* The answer to an earlier request, with the table as it was before the
\* decision, has not arrived yet, and the poll timer is running
C39_Witness ==
  /\ hook.phase = "mounted"
  /\ hook.seen >= 2
  /\ bookings[1].status # "Pending"
  /\ hook.bookings = BookingsBody(bookings)
  /\ \E f \in hook.fetches.bookings :
       f.state = "ok" /\ f.data # BookingsBody(bookings)
  /\ hook.intervals # <<>>

====
